---- MODULE Spec2Model ----
(***************************************************************************)
(* A model of the DoggOSFuzzy inference core:                              *)
(*   - TakagiSugenoInferenceSystem.infer and its memoization cache         *)
(*     (doggos/inference/takagi_sugeno_inference_system.py),               *)
(*   - the defuzzification algorithms, Karnik-Mendel in particular         *)
(*     (doggos/inference/defuzzification_algorithms.py),                   *)
(*   - the antecedent tree Term and the interval type-2 fuzzy set, whose   *)
(*     implementation files are not part of the sources at hand and are    *)
(*     modelled from the specification and the unit tests.                 *)
(*                                                                         *)
(* Numbers.  Membership degrees live on a grid: the integer f stands for   *)
(* f / Grid.  The code adds the bias 1e-10 to every weight before          *)
(* averaging; a weight is therefore kept as a pair <<a, b>> that stands    *)
(* for a + b * 1e-10, and a weighted average as a fraction of two such     *)
(* pairs.  Every integer of the model is far below 1e10 in magnitude, so   *)
(* the sign of a0 + a1*1e-10 + a2*1e-20 is the sign of its first non-zero  *)
(* coefficient, and a difference is compared with a tolerance by its      *)
(* order in 1e-10.  Arithmetic is exact: the rounding of 64-bit floats is  *)
(* not modelled.                                                           *)
(***************************************************************************)
EXTENDS Integers, Sequences, FiniteSets, TLC

VARIABLES
    cache,      \* TakagiSugenoInferenceSystem.__cache: the class-level dict
    storedBy,   \* history: the instance whose infer call stored each key
    params,     \* per instance, per rule: consequent.function_parameters values
    lastCall,   \* history: what the last infer call was given and did
    nCalls,     \* number of infer calls made so far
    nSets,      \* number of parameter changes made so far
    km,         \* one call of karnik_mendel: its arguments, its place, its locals
    tick,       \* flips with every step a running karnik_mendel call takes
    tm,         \* the antecedent the caller has built and its last firing
    fs,         \* an IntervalType2FuzzySet and the outcome of the last operation on it
    mc,         \* a MamdaniConsequent: its clause, its __cut_mf and its last output call
    fn,         \* the last call of a defuzzification function: arguments and outcome
    st,         \* one call of infer taken line by line: its place and its locals
    th          \* per thread: a call of infer running beside the other thread's

inferVars == <<cache, storedBy, params, lastCall, nCalls, nSets>>
kmVars == <<km, tick>>
vars == <<cache, storedBy, params, lastCall, nCalls, nSets, km, tick, tm, fs, mc, fn, st, th>>

----------------------------------------------------------------------------
(* Bounds of the model *)

\* membership degrees are the multiples of 1/Grid in [0, 1]
Grid == 1
\* samples per infer call
MaxSamples == 2
\* infer calls per behaviour
MaxCalls == 2
\* changes of a consequent coefficient per behaviour
MaxSets == 1
\* the same, for the behaviours that only repeat one-sample calls (SpecTune)
MaxTuneCalls == 3
MaxTunes == 2
\* largest measured value / consequent coefficient
MaxValue == 2
\* karnik_mendel: membership arrays hold the multiples of 1/MGrid in [0, 1],
\* domains hold at most MaxDomain points out of 0..MaxCoord
MGrid == 2
MaxDomain == 3
MaxCoord == 2
\* antecedents: trees of at most MaxTermDepth levels of & and |
MaxTermDepth == 2
\* fuzzy sets: membership functions are tables over the points 1..MaxPoint
\* with values in the multiples of 1/FGrid in [0, 1]; arrays of at most
\* MaxArray points are evaluated
MaxPoint == 2
FGrid == 2
MaxArray == 2
\* defuzzification functions called on their own: at most MaxRules firings
MaxRules == 3
\* center_of_gravity: lists of at most MaxLists membership arrays
MaxLists == 2
MaxStepCalls == 1
MaxThreadSamples == 1
MaxStep == 2
MaxTSKMRules == 2

Degrees == 0..Grid
Instances == {1, 2}
Clauses == {"c1", "c2"}
Values == 1..MaxValue

----------------------------------------------------------------------------
(* Exact arithmetic with the 1e-10 bias kept symbolic *)

RECURSIVE SumSeq(_)
SumSeq(s) == IF s = <<>> THEN 0 ELSE Head(s) + SumSeq(Tail(s))

SumPairs(s) ==
    << SumSeq([i \in DOMAIN s |-> s[i][1]]), SumSeq([i \in DOMAIN s |-> s[i][2]]) >>

\* a raised exception, as a value
Err(e) == [err |-> e]
IsErr(c) == "err" \in DOMAIN c

\* weights + 1e-10 (elementwise); the weights are multiples of 1/g and the
\* common factor g is scaled out, which leaves an average as it is
Biased(ws, g) == [i \in DOMAIN ws |-> <<ws[i], g>>]

\* unbiased weights (center_of_gravity hands the union to np.average as it is)
Plain(ws) == [i \in DOMAIN ws |-> <<ws[i], 0>>]

\* np.average(values, weights=weights): sum(values * weights) / sum(weights);
\* numpy raises ZeroDivisionError when the weights sum to zero
Average(values, weights) ==
    LET den == SumPairs(weights)
        num == SumPairs([i \in DOMAIN values |->
                            <<values[i] * weights[i][1], values[i] * weights[i][2]>>])
    IN  IF den = <<0, 0>> THEN Err("ZeroDivisionError")
        ELSE [num |-> num, den |-> den]

\* Polynomials in e = 1e-10, as the sequence of their coefficients
PolyAt(p, i) == IF i \in DOMAIN p THEN p[i] ELSE 0
PolyLen(p, q) == IF Len(p) >= Len(q) THEN Len(p) ELSE Len(q)
PolyAdd(p, q) == [i \in 1..PolyLen(p, q) |-> PolyAt(p, i) + PolyAt(q, i)]
PolySub(p, q) == [i \in 1..PolyLen(p, q) |-> PolyAt(p, i) - PolyAt(q, i)]
PolyMul(p, q) ==
    [k \in 1..(Len(p) + Len(q) - 1) |->
        SumSeq([i \in 1..Len(p) |-> p[i] * PolyAt(q, k - i + 1)])]

\* the first non-zero coefficient decides the sign
RECURSIVE Sign(_)
Sign(p) ==
    IF p = <<>> THEN 0
    ELSE IF Head(p) > 0 THEN 1
    ELSE IF Head(p) < 0 THEN -1
    ELSE Sign(Tail(p))

\* the power of 1e-10 of the first non-zero coefficient of p, p not zero
RECURSIVE Order(_)
Order(p) ==
    IF p = <<>> \/ Head(p) # 0 THEN 0 ELSE 1 + Order(Tail(p))

\* x - y = CrossDiff(x, y) / DenProduct(x, y); denominators are positive
CrossDiff(x, y) == PolySub(PolyMul(x.num, y.den), PolyMul(y.num, x.den))
DenProduct(x, y) == PolyMul(x.den, y.den)

NumEq(x, y) == Sign(CrossDiff(x, y)) = 0
NumLeq(x, y) == Sign(CrossDiff(x, y)) <= 0

\* the size of |x - y| as a power of 1e-10, for x # y: 0 or less for a
\* difference of the order of the data, 1 for one of the order of the bias,
\* 2 or more for less
DiffOrder(x, y) == Order(CrossDiff(x, y)) - Order(DenProduct(x, y))

\* |x - y| <= 1e-6: x and y differ by the order of the bias at most
Close(x, y) == NumEq(x, y) \/ DiffOrder(x, y) >= 1

RECURSIVE Factorial(_)
Factorial(n) == IF n <= 1 THEN 1 ELSE n * Factorial(n - 1)

\* the interval degrees (lower, upper) in 1/g
IntervalDegreesOf(g) == { d \in (0..g) \X (0..g) : d[1] <= d[2] }

\* the integer n as a number
Num(n) == [num |-> <<n>>, den |-> <<1>>]

\* (x + y) / 2
HalfSum(x, y) ==
    [num |-> PolyAdd(PolyMul(x.num, y.den), PolyMul(y.num, x.den)),
     den |-> PolyMul(<<2>>, PolyMul(x.den, y.den))]

----------------------------------------------------------------------------
(* Membership degrees, the algebra and the antecedent tree.                *)
(* A degree is the tuple of its components: <<f>> is the scalar f / Grid   *)
(* of a type-1 set, <<l, u>> the interval of an interval type-2 set.       *)

Min(a, b) == IF a <= b THEN a ELSE b
Max(a, b) == IF a >= b THEN a ELSE b

\* GodelAlgebra: minimum and maximum, componentwise on intervals
TNorm(a, b) == [i \in DOMAIN a |-> Min(a[i], b[i])]
SNorm(a, b) == [i \in DOMAIN a |-> Max(a[i], b[i])]

\* Term(algebra, clause), term & term, term | term
Leaf(c) == [op |-> "leaf", clause |-> c]
And(l, r) == [op |-> "and", left |-> l, right |-> r]
Or(l, r) == [op |-> "or", left |-> l, right |-> r]

RECURSIVE FireOrAsAnd(_, _)
RECURSIVE Fire(_, _)
FireOrAsAnd(t, m) ==
    CASE t.op = "leaf" -> m[t.clause]
      [] t.op = "and" -> TNorm(FireOrAsAnd(t.left, m), FireOrAsAnd(t.right, m))
      [] t.op = "or" -> TNorm(FireOrAsAnd(t.left, m), FireOrAsAnd(t.right, m))
\* Term.fire(measurements)
Fire(t, m) ==
    CASE t.op = "leaf" -> m[t.clause]
      [] t.op = "and" -> TNorm(Fire(t.left, m), Fire(t.right, m))
      [] t.op = "or" -> SNorm(Fire(t.left, m), Fire(t.right, m))

----------------------------------------------------------------------------
(* Defuzzification: center_of_gravity and karnik_mendel *)

RECURSIVE MaxSeq(_)
MaxSeq(s) == IF Len(s) = 1 THEN s[1] ELSE Max(Head(s), MaxSeq(Tail(s)))

MembershipFuncFirst(mfs) == IF mfs.nested THEN mfs.data[1] ELSE mfs.data
\* __membership_func_union(mfs): a single array is wrapped into a list, then
\* the elementwise maximum of the arrays
MembershipFuncUnion(mfs) ==
    LET list == IF mfs.nested THEN mfs.data ELSE << mfs.data >>
    IN  [i \in DOMAIN list[1] |-> MaxSeq([f \in DOMAIN list |-> list[f][i]])]

\* center_of_gravity(domain, membership_functions), memberships in 1/g
CenterOfGravity(domain, mfs) == Average(domain, Plain(MembershipFuncUnion(mfs)))

\* thetas = (lower_cut + upper_cut) / 2 + 1e-10, scaled by 2g
Thetas(lower_cut, upper_cut, g) ==
    [i \in DOMAIN lower_cut |-> << lower_cut[i] + upper_cut[i], 2 * g >>]

\* __find_k(c, domain): np.where(domain <= c)[0][-1]; 0 stands for the
\* IndexError of an empty selection
FindK(c, domain) ==
    LET below == { k \in DOMAIN domain : NumLeq(Num(domain[k]), c) }
    IN  IF below = {} THEN 0 ELSE CHOOSE k \in below : \A j \in below : j <= k

CutBelow(k, under_k_mf, over_k_mf) ==
    [i \in DOMAIN under_k_mf |-> IF i < k THEN under_k_mf[i] ELSE over_k_mf[i]]
\* the weights of __find_c_minute: under_k_mf up to index k, over_k_mf beyond
CutAt(k, under_k_mf, over_k_mf) ==
    [i \in DOMAIN under_k_mf |-> IF i <= k THEN under_k_mf[i] ELSE over_k_mf[i]]

\* __find_c_minute(c, under_k_mf, over_k_mf, domain)
FindCMinute(c, under_k_mf, over_k_mf, domain, g) ==
    LET k == FindK(c, domain)
    IN  IF k = 0 THEN Err("IndexError")
        ELSE Average(domain, Biased(CutAt(k, under_k_mf, over_k_mf), g))

\* abs(c_minute - c_prim) > np.finfo(float).eps: the machine epsilon 2.2e-16
\* lies between the order of the bias 1e-10 and its square
ExceedsEps(c_minute, c_prim) ==
    ~NumEq(c_minute, c_prim) /\ DiffOrder(c_minute, c_prim) <= 1

AdvanceStuck(c_prim, c_minute) == c_prim
\* line 86: c_prim = c_minute
Advance(c_prim, c_minute) == c_minute

HalfSumNotHalved(x, y) ==
    [num |-> PolyAdd(PolyMul(x.num, y.den), PolyMul(y.num, x.den)),
     den |-> PolyMul(x.den, y.den)]
\* line 71: (y_l + y_r) / 2
Decision(y_l, y_r) == HalfSum(y_l, y_r)

KMIdle ==
    [pc |-> "idle", grid |-> 1, domain |-> <<>>,
     lmfs |-> [nested |-> FALSE, data |-> <<>>],
     umfs |-> [nested |-> FALSE, data |-> <<>>],
     c_prim |-> Num(0), c_minute |-> Num(0), y_l |-> Num(0), y_r |-> Num(0),
     result |-> Num(0), looped |-> FALSE, from |-> [name |-> "caller"]]

\* karnik_mendel(lmfs, umfs, domain) is entered
KMCall(lmf, umf, domain, g) ==
    [KMIdle EXCEPT !.pc = "find_yl", !.grid = g, !.domain = domain,
                   !.lmfs = [nested |-> FALSE, data |-> lmf],
                   !.umfs = [nested |-> FALSE, data |-> umf]]

\* karnik_mendel is entered with lists of membership arrays
KMCallLists(lmfs, umfs, domain, g) ==
    [KMIdle EXCEPT !.pc = "find_yl", !.grid = g, !.domain = domain,
                   !.lmfs = [nested |-> TRUE, data |-> lmfs],
                   !.umfs = [nested |-> TRUE, data |-> umfs]]

LowerCut == MembershipFuncUnion(km.lmfs)
UpperCut == MembershipFuncUnion(km.umfs)
UnderKSwapped == IF km.pc \in {"first_yl", "loop_yl"} THEN LowerCut ELSE UpperCut
\* lines 69-70: y_l weighs the points up to k by the upper cut, y_r by the lower
UnderK == IF km.pc \in {"first_yl", "loop_yl"} THEN UpperCut ELSE LowerCut
OverK == IF km.pc \in {"first_yl", "loop_yl"} THEN LowerCut ELSE UpperCut

\* __find_y, line 83: the first candidate is the average weighted by thetas
FindYBegin ==
    /\ km.pc \in {"find_yl", "find_yr"}
    /\ \E thetas \in {Thetas(LowerCut, UpperCut, km.grid)} :
           km' = [km EXCEPT !.pc = IF km.pc = "find_yl" THEN "first_yl"
                                   ELSE "first_yr",
                           !.c_prim = Average(km.domain, thetas)]
    /\ tick' = ~tick
    /\ UNCHANGED <<inferVars, tm, fs, mc, fn, st, th>>

\* __find_y, line 84: the second candidate
FindYFirst ==
    /\ km.pc \in {"first_yl", "first_yr"}
    /\ \E c_minute \in {FindCMinute(km.c_prim, UnderK, OverK, km.domain, km.grid)} :
           km' = IF IsErr(c_minute) THEN [km EXCEPT !.pc = "error"]
                 ELSE [km EXCEPT !.pc = IF km.pc = "first_yl" THEN "loop_yl"
                                        ELSE "loop_yr",
                                 !.c_minute = c_minute]
    /\ tick' = ~tick
    /\ UNCHANGED <<inferVars, tm, fs, mc, fn, st, th>>

\* __find_y, lines 85-87: one turn of the loop
FindYIterate ==
    /\ km.pc \in {"loop_yl", "loop_yr"}
    /\ ExceedsEps(km.c_minute, km.c_prim)
    /\ \E c_prim \in {Advance(km.c_prim, km.c_minute)} :
       \E c_minute \in {FindCMinute(c_prim, UnderK, OverK, km.domain, km.grid)} :
           km' = IF IsErr(c_minute) THEN [km EXCEPT !.pc = "error"]
                 ELSE [km EXCEPT !.c_prim = c_prim, !.c_minute = c_minute,
                                 !.looped = TRUE]
    /\ tick' = ~tick
    /\ UNCHANGED <<inferVars, tm, fs, mc, fn, st, th>>

\* __find_y, line 88: the loop is left and c_minute returned
FindYReturn ==
    /\ km.pc \in {"loop_yl", "loop_yr"}
    /\ ~ExceedsEps(km.c_minute, km.c_prim)
    /\ km' = IF km.pc = "loop_yl"
             THEN [km EXCEPT !.y_l = km.c_minute, !.pc = "find_yr"]
             ELSE [km EXCEPT !.y_r = km.c_minute, !.pc = "return"]
    /\ tick' = ~tick
    /\ UNCHANGED <<inferVars, tm, fs, mc, fn, st, th>>

\* karnik_mendel, line 71
KarnikMendelReturn ==
    /\ km.pc = "return"
    /\ km' = [km EXCEPT !.result = Decision(km.y_l, km.y_r), !.pc = "done"]
    /\ tick' = ~tick
    /\ UNCHANGED <<inferVars, tm, fs, mc, fn, st, th>>

\* the arguments of karnik_mendel: any points, any arrays with lmf <= umf
KMDomains == UNION { [1..n -> 0..MaxCoord] : n \in 1..MaxDomain }
KMArrays(n) == [1..n -> 0..MGrid]

\* domain 0, 1, ..., 10 and the triangle of base [0, 10] that peaks at 5
TriangleDomain == [i \in 1..11 |-> i - 1]
Triangle == [i \in 1..11 |-> IF i <= 6 THEN i - 1 ELSE 11 - i]
\* the peak of the triangle is the membership 1
TriangleGrid == MaxSeq(Triangle)

\* two consequents over the points 0, 1, 2: the lower and the upper
\* membership arrays of each, in 1/MGrid
PairDomain == [i \in 1..3 |-> i - 1]
PairLower == << [i \in 1..3 |-> IF i = 2 THEN 1 ELSE 0],
               [i \in 1..3 |-> IF i = 3 THEN 1 ELSE 0] >>
PairUpper == << [i \in 1..3 |-> IF i = 2 THEN MGrid ELSE 1],
               [i \in 1..3 |-> i - 1] >>

----------------------------------------------------------------------------
(* Building and firing antecedents *)

\* the clauses of the antecedents the caller builds
TermClauses == {"A", "B", "C", "D"}

\* every antecedent of at most d levels of & and |
RECURSIVE Terms(_)
Terms(d) ==
    IF d = 0 THEN { Leaf(c) : c \in TermClauses }
    ELSE LET sub == Terms(d - 1)
         IN  sub \cup { And(l, r) : l \in sub, r \in sub }
                 \cup { Or(l, r) : l \in sub, r \in sub }

\* measurements: a scalar degree for every clause (type-1 sets) or an
\* interval degree for every clause (interval type-2 sets)
ScalarDegrees == { <<f>> : f \in Degrees }
IntervalDegrees == { d \in Degrees \X Degrees : d[1] <= d[2] }
Measurements == [TermClauses -> ScalarDegrees] \cup [TermClauses -> IntervalDegrees]

\* the values handed over as algebra: two Algebra instances, and a list
Algebras == {"godel_1", "godel_2"}
AlgebraArguments == Algebras \cup {"list"}

AntecedentInitUnchecked(algebra) == [algebra |-> algebra]
\* Antecedent.__init__(algebra)
AntecedentInit(algebra) ==
    IF algebra \notin Algebras THEN Err("TypeError")
    ELSE [algebra |-> algebra]

NoTerm == [state |-> "none"]

\* the caller composes an antecedent from terms Term(algebra, clause);
\* nothing is evaluated
TermBuild ==
    /\ tm.state = "none"
    /\ \E algebra \in AlgebraArguments :
           LET antecedent == AntecedentInit(algebra)
           IN  IF IsErr(antecedent)
               THEN tm' = [state |-> "none", given |-> algebra,
                           raised |-> antecedent]
               ELSE \E t \in Terms(MaxTermDepth) :
                        tm' = [state |-> "built", given |-> algebra,
                               algebra |-> antecedent.algebra, term |-> t]
    /\ UNCHANGED <<inferVars, kmVars, fs, mc, fn, st, th>>

\* antecedent.fire(measurements)
TermFire ==
    /\ tm.state = "built"
    /\ \E m \in Measurements :
           tm' = [state |-> "fired", given |-> tm.given, algebra |-> tm.algebra,
                  term |-> tm.term, m |-> m, result |-> Fire(tm.term, m)]
    /\ UNCHANGED <<inferVars, kmVars, fs, mc, fn, st, th>>

NextTerm == TermBuild \/ TermFire

----------------------------------------------------------------------------
(* IntervalType2FuzzySet *)

Points == 1..MaxPoint

\* a membership function, given by its values at the points; anything else
\* handed over in its place is not callable
MembershipFunctions == { [callable |-> TRUE, at |-> f] : f \in [Points -> 0..FGrid] }
NotCallable == [callable |-> FALSE]

\* the arguments of a call: one point, or an array of points
Scalars == { [ndim |-> 0, data |-> <<p>>] : p \in Points }
Arrays == { [ndim |-> 1, data |-> a] : a \in UNION { [1..n -> Points] : n \in 1..MaxArray } }

\* f(x), of the shape of x
Apply(f, x) == [ndim |-> x.ndim, data |-> [i \in DOMAIN x.data |-> f.at[x.data[i]]]]

NoFuzzySet == [state |-> "none", last |-> [op |-> "none"]]

\* IntervalType2FuzzySet(lower_membership_function, upper_membership_function)
FuzzySetInit(lmf, umf) ==
    IF ~lmf.callable \/ ~umf.callable
    THEN [state |-> "none",
          last |-> [op |-> "init", lmf |-> lmf, umf |-> umf,
                    outcome |-> Err("ValueError")]]
    ELSE [state |-> "set", lmf |-> lmf, umf |-> umf,
          last |-> [op |-> "init", lmf |-> lmf, umf |-> umf,
                    outcome |-> [ok |-> TRUE]]]

AnyAboveOrEqual(lower, upper) == \E i \in DOMAIN lower.data : lower.data[i] >= upper.data[i]
\* np.any(lower > upper)
AnyAbove(lower, upper) == \E i \in DOMAIN lower.data : lower.data[i] > upper.data[i]

\* fuzzy_set(x)
FuzzySetCall(set, x) ==
    LET lower == Apply(set.lmf, x)
        upper == Apply(set.umf, x)
    IN  IF AnyAbove(lower, upper) THEN Err("ValueError")
        ELSE [lower |-> lower, upper |-> upper]

FuzzySetAssignValidated(set, which, f) ==
    LET lmf == IF which = "set_lower" THEN f ELSE set.lmf
        umf == IF which = "set_upper" THEN f ELSE set.umf
    IN  IF ~f.callable \/ \E p \in Points : lmf.at[p] > umf.at[p]
        THEN [set EXCEPT !.last = [op |-> which, value |-> f,
                                   outcome |-> Err("ValueError")]]
        ELSE [set EXCEPT !.lmf = lmf, !.umf = umf,
                         !.last = [op |-> which, value |-> f, outcome |-> [ok |-> TRUE]]]
FuzzySetAssignUnchecked(set, which, f) ==
    [set EXCEPT !.lmf = IF which = "set_lower" THEN f ELSE @,
                !.umf = IF which = "set_upper" THEN f ELSE @,
                !.last = [op |-> which, value |-> f, outcome |-> [ok |-> TRUE]]]
\* fuzzy_set.lower_membership_function = f, fuzzy_set.upper_membership_function = f
FuzzySetAssign(set, which, f) ==
    IF ~f.callable
    THEN [set EXCEPT !.last = [op |-> which, value |-> f,
                               outcome |-> Err("ValueError")]]
    ELSE [set EXCEPT !.lmf = IF which = "set_lower" THEN f ELSE @,
                     !.umf = IF which = "set_upper" THEN f ELSE @,
                     !.last = [op |-> which, value |-> f, outcome |-> [ok |-> TRUE]]]

Construct ==
    /\ fs.state = "none"
    /\ \E lmf \in MembershipFunctions \cup {NotCallable},
          umf \in MembershipFunctions \cup {NotCallable} :
           fs' = FuzzySetInit(lmf, umf)
    /\ UNCHANGED <<inferVars, kmVars, tm, mc, fn, st, th>>

Evaluate ==
    /\ fs.state = "set"
    /\ \E x \in Scalars \cup Arrays :
           fs' = [fs EXCEPT !.last = [op |-> "call", x |-> x,
                                      lmf |-> fs.lmf, umf |-> fs.umf,
                                      outcome |-> FuzzySetCall(fs, x)]]
    /\ UNCHANGED <<inferVars, kmVars, tm, mc, fn, st, th>>

Assign ==
    /\ fs.state = "set"
    /\ \E which \in {"set_lower", "set_upper"},
          f \in MembershipFunctions \cup {NotCallable} :
           fs' = FuzzySetAssign(fs, which, f)
    /\ UNCHANGED <<inferVars, kmVars, tm, mc, fn, st, th>>

NextFS == Construct \/ Evaluate \/ Assign


----------------------------------------------------------------------------
(* MamdaniConsequent *)

\* membership arrays of a consequent clause, sampled at MaxArray points
MembershipArrays == [1..MaxArray -> 0..FGrid]

\* clause.fuzzy_set: one array (type-1) or a pair of arrays (interval type-2)
ConsequentClauses ==
    { [kind |-> "t1", mf |-> a] : a \in MembershipArrays }
        \cup { [kind |-> "it2", lmf |-> a, umf |-> b] :
                   a \in MembershipArrays, b \in MembershipArrays }

\* rule firings handed to output: a float, a tuple of any length, or a value
\* of another type (an int, a list)
Firings ==
    { [type |-> "float", value |-> v] : v \in 0..FGrid }
        \cup { [type |-> "tuple", items |-> t] :
                   t \in UNION { [1..n -> 0..FGrid] : n \in 0..MaxArray + 1 } }
        \cup { [type |-> "int"], [type |-> "list"] }

None == [kind |-> "none"]

\* np.minimum(array, level)
Cut(array, level) == [i \in DOMAIN array |-> Min(array[i], level)]

\* __t1_cut(rule_firing); np.minimum broadcasts over a pair of arrays
T1Cut(clause, rule_firing) ==
    IF clause.kind = "t1"
    THEN [kind |-> "array", data |-> Cut(clause.mf, rule_firing.value)]
    ELSE [kind |-> "array2d", rows |-> << Cut(clause.lmf, rule_firing.value),
                                         Cut(clause.umf, rule_firing.value) >>]

\* __it2_cut(rule_firing); fuzzy_set[0] and fuzzy_set[1] of a single array
\* are its first two elements
IT2Cut(clause, rule_firing) ==
    IF clause.kind = "it2"
    THEN [kind |-> "pair", lower |-> Cut(clause.lmf, rule_firing.items[1]),
          upper |-> Cut(clause.umf, rule_firing.items[2])]
    ELSE [kind |-> "scalars", lower |-> Min(clause.mf[1], rule_firing.items[1]),
          upper |-> Min(clause.mf[2], rule_firing.items[2])]

\* MamdaniConsequent.output(rule_firing): a tuple whose length is not 2 falls
\* through both branches and the method returns None
MamdaniOutput(clause, rule_firing) ==
    IF rule_firing.type = "float" THEN T1Cut(clause, rule_firing)
    ELSE IF rule_firing.type = "tuple"
         THEN IF Len(rule_firing.items) = 2 THEN IT2Cut(clause, rule_firing)
              ELSE None
    ELSE Err("Exception")

NoConsequent == [state |-> "none"]
\* no defuzzification function called yet
NoFunctionCall == [op |-> "none"]

\* MamdaniConsequent(clause)
ConsequentInit ==
    /\ mc.state = "none"
    /\ \E clause \in ConsequentClauses :
           mc' = [state |-> "built", clause |-> clause, cut_mf |-> None]
    /\ UNCHANGED <<inferVars, kmVars, tm, fs, fn, st, th>>

\* consequent.output(rule_firing); the cuts also store their result in __cut_mf
ConsequentOutput ==
    /\ mc.state \in {"built", "called"}
    /\ \E rule_firing \in Firings :
           LET outcome == MamdaniOutput(mc.clause, rule_firing)
           IN  mc' = [state |-> "called", clause |-> mc.clause,
                      cut_mf |-> IF IsErr(outcome) \/ outcome = None
                                 THEN mc.cut_mf ELSE outcome,
                      rule_firing |-> rule_firing, outcome |-> outcome]
    /\ UNCHANGED <<inferVars, kmVars, tm, fs, fn, st, th>>

NextMamdani == ConsequentInit \/ ConsequentOutput

----------------------------------------------------------------------------
(* TakagiSugenoInferenceSystem *)

\* the antecedents of the rule base each instance was constructed with
RuleBase(self) ==
    IF self = 1
    THEN << Leaf("c1"), Leaf("c2") >>
    ELSE << And(Leaf("c1"), Leaf("c2")), Or(Leaf("c1"), Leaf("c2")) >>

NumRules == Len(RuleBase(1))

\* TakagiSugenoConsequent.output(single_measures): the linear combination of
\* the measured values with the consequent's coefficients
Output(coefficients, single_measures) ==
    SumSeq([v \in DOMAIN single_measures |-> coefficients[v] * single_measures[v]])

RECURSIVE Flatten(_)
Flatten(ps) == IF ps = <<>> THEN <<>> ELSE Head(ps) \o Flatten(Tail(ps))

GetInputTupleNoParams(ruleParams, input) == input
\* __get_input_tuple: the measured values, then every rule's coefficients
GetInputTuple(ruleParams, input) == input \o Flatten(ruleParams)

IsCachedNever(c, key) == FALSE
\* __is_cached
IsCached(c, key) == key \in DOMAIN c

\* np.take(value, i, axis=-1) on a 1-d array (a scalar degree per sample) or
\* on a 2-d array (the i-th column)
NpTake(value, i) ==
    IF value.ndim = 1 THEN << value.data[i] >>
    ELSE [r \in DOMAIN value.data |-> value.data[r][i]]

SingleFeatures(features, i) == [c \in DOMAIN features |-> NpTake(features[c], i)]
SingleMeasures(measures, i) == [v \in DOMAIN measures |-> measures[v][i]]

\* np.argsort(outputs): the indices in ascending order of output; arrays this
\* short are sorted by insertion, which keeps equal outputs in index order
ArgSort(xs) ==
    CHOOSE p \in [DOMAIN xs -> DOMAIN xs] :
        /\ \A i, j \in DOMAIN xs : i # j => p[i] # p[j]
        /\ \A i, j \in DOMAIN xs : i < j =>
              \/ xs[p[i]] < xs[p[j]]
              \/ xs[p[i]] = xs[p[j]] /\ p[i] < p[j]

WeightedAverageUnbiased(firings, outputs) ==
    IF \A r \in DOMAIN firings : Len(firings[r]) = 1
    THEN Average(outputs, Plain([r \in DOMAIN firings |-> firings[r][1]]))
    ELSE Err("TypeError")
\* weighted_average(firings, outputs): np.average(outputs, weights=firings + 1e-10);
\* numpy refuses weights whose shape differs from that of outputs
WeightedAverage(firings, outputs) ==
    IF \A r \in DOMAIN firings : Len(firings[r]) = 1
    THEN Average(outputs, Biased([r \in DOMAIN firings |-> firings[r][1]], Grid))
    ELSE Err("TypeError")

\* a method of the caller's own, lambda firings, outputs:
\* np.average(outputs, weights=firings): it raises ZeroDivisionError when no
\* rule fires
PlainAverage(firings, outputs) ==
    IF \A r \in DOMAIN firings : Len(firings[r]) = 1
    THEN Average(outputs, Plain([r \in DOMAIN firings |-> firings[r][1]]))
    ELSE Err("TypeError")

Methods == {"weighted_average", "not_callable"}
Callable(method) == method # "not_callable"

\* defuzzification_method(firings, outputs)
Defuzzify(method, firings, outputs) ==
    IF method = "weighted_average" THEN WeightedAverage(firings, outputs)
    ELSE IF method = "plain_average" THEN PlainAverage(firings, outputs)
    ELSE Err("TypeError")

\* lines 89-100: every rule's output and firing, the sort, the defuzzification
FreshConclusion(self, ruleParams, method, sf, sm) ==
    LET outputs == [r \in 1..NumRules |-> Output(ruleParams[r], sm)]
        firings == [r \in 1..NumRules |-> Fire(RuleBase(self)[r], sf)]
        ind == ArgSort(outputs)
    IN  Defuzzify(method, [k \in 1..NumRules |-> firings[ind[k]]],
                          [k \in 1..NumRules |-> outputs[ind[k]]])

PreconditionErrorLate(features, measures, method) ==
    IF features.kind # "dict" THEN "ValueError"
    ELSE IF measures.kind # "dict" THEN "ValueError"
    ELSE "none"
\* lines 70-75: the argument checks
PreconditionError(features, measures, method) ==
    IF features.kind # "dict" THEN "ValueError"
    ELSE IF measures.kind # "dict" THEN "ValueError"
    ELSE IF ~Callable(method) THEN "ValueError"
    ELSE "none"

AppendConclusionFront(conclusions, c) == <<c>> \o conclusions
\* conclusions.append(conclusion)
AppendConclusion(conclusions, c) == Append(conclusions, c)

CacheStoreIfAbsent(c, key, conclusion) ==
    IF key \in DOMAIN c THEN c
    ELSE [k \in DOMAIN c \cup {key} |-> IF k = key THEN conclusion ELSE c[k]]
CacheStoreAlone(c, key, conclusion) == [k \in {key} |-> conclusion]
\* self.__cache[input_tuple] = conclusion
CacheStore(c, key, conclusion) ==
    [k \in DOMAIN c \cup {key} |-> IF k = key THEN conclusion ELSE c[k]]

NoEvals == [output |-> 0, fire |-> 0, defuzz |-> 0]

\* lines 77-104: the loop over the samples, from sample i on; acc is the state
\* of the call so far
RECURSIVE InferSamples(_, _, _, _, _, _, _)
InferSamples(self, ruleParams, method, features, measures, i, acc) ==
    IF i > Len(measures[1]) THEN acc
    ELSE
    LET sf == SingleFeatures(features, i)
        sm == SingleMeasures(measures, i)
        key == GetInputTuple(ruleParams, sm)
        fresh == FreshConclusion(self, ruleParams, method, sf, sm)
        seen == [acc EXCEPT !.keys = Append(@, key), !.fresh = Append(@, fresh)]
    IN  IF IsCached(acc.cache, key)
        THEN InferSamples(self, ruleParams, method, features, measures, i + 1,
                 [seen EXCEPT !.conclusions = AppendConclusion(@, acc.cache[key]),
                              !.hits = Append(@, TRUE),
                              !.evals = Append(@, NoEvals)])
        ELSE IF IsErr(fresh)
        THEN [seen EXCEPT !.status = fresh.err,
                          !.hits = Append(@, FALSE),
                          !.evals = Append(@, [output |-> NumRules, fire |-> NumRules,
                                               defuzz |-> 1])]
        ELSE InferSamples(self, ruleParams, method, features, measures, i + 1,
                 [seen EXCEPT !.conclusions = AppendConclusion(@, fresh),
                              !.hits = Append(@, FALSE),
                              !.evals = Append(@, [output |-> NumRules, fire |-> NumRules,
                                                   defuzz |-> 1]),
                              !.cache = CacheStore(acc.cache, key, fresh),
                              !.storedBy = [k \in DOMAIN acc.cache \cup {key} |->
                                            IF k = key THEN self ELSE acc.storedBy[k]]])

NoCall ==
    [call |-> 0, self |-> 0, method |-> "none", status |-> "none",
     kinds |-> <<"none", "none">>, measures |-> <<>>, ruleParams |-> <<>>, conclusions |-> <<>>,
     keys |-> <<>>, hits |-> <<>>, evals |-> <<>>, fresh |-> <<>>]

\* infer(self, defuzzification_method, features, measures)
Infer(self, method, features, measures) ==
    /\ nCalls' = nCalls + 1
    /\ LET pre == PreconditionError(features, measures, method)
           start == [cache |-> cache, storedBy |-> storedBy, status |-> "ok",
                     conclusions |-> <<>>, keys |-> <<>>, hits |-> <<>>,
                     evals |-> <<>>, fresh |-> <<>>]
           res == IF pre # "none" THEN [start EXCEPT !.status = pre]
                  ELSE InferSamples(self, params[self], method, features.items,
                                    measures.items, 1, start)
       IN  /\ cache' = res.cache
           /\ storedBy' = res.storedBy
           /\ lastCall' = [call |-> nCalls + 1, self |-> self, method |-> method,
                           status |-> res.status,
                           kinds |-> <<features.kind, measures.kind>>,
                           measures |-> measures.items, ruleParams |-> params[self],
                           conclusions |-> IF res.status = "ok" THEN res.conclusions
                                           ELSE <<>>,
                           keys |-> res.keys, hits |-> res.hits,
                           evals |-> res.evals, fresh |-> res.fresh]
    /\ UNCHANGED <<params, nSets, kmVars, tm, fs, mc, fn, st, th>>

\* the caller replaces one coefficient of one rule's consequent
SetParameter(self, r, v, value) ==
    /\ params[self][r][v] # value
    /\ params' = [params EXCEPT ![self][r][v] = value]
    /\ nSets' = nSets + 1
    /\ UNCHANGED <<cache, storedBy, lastCall, nCalls, kmVars, tm, fs, mc, fn, st, th>>

\* the arguments a caller may hand to infer
\* (a clause's degree is the same for every sample of one call)
FeatureArrays(n) == { [ndim |-> 1, data |-> [i \in 1..n |-> d]] : d \in Degrees }
FeatureArgs(n) ==
    { [kind |-> "dict", items |-> f] : f \in [Clauses -> FeatureArrays(n)] }
MeasureArgs(n) ==
    { [kind |-> "dict", items |-> << m >>] : m \in [1..n -> Values] }
BadArg == [kind |-> "list", items |-> <<>>]
SomeFeatures ==
    [kind |-> "dict", items |-> [c \in Clauses |-> [ndim |-> 1, data |-> << Grid >>]]]
SomeMeasures == [kind |-> "dict", items |-> << << 1 >> >>]

\* the arguments of weighted_average: the firings and outputs of up to
\* MaxRules rules, none at all included
FiringVectors(n) == [1..n -> ScalarDegrees]
OutputVectors(n) == [1..n -> (0 - MaxValue)..MaxValue]

\* weighted_average(firings, outputs) is called
CallWeightedAverage ==
    /\ fn.op = "none"
    /\ \E n \in 0..MaxRules :
           \E firings \in FiringVectors(n), outputs \in OutputVectors(n) :
               fn' = [op |-> "weighted_average", firings |-> firings,
                      outputs |-> outputs,
                      outcome |-> WeightedAverage(firings, outputs)]
    /\ UNCHANGED <<inferVars, kmVars, tm, fs, mc, st, th>>

\* calculate_membership: the points (first column, second column) of
\* outputs_of_rules, sorted ascending by the first column, the second column
\* in 1/FGrid; x and the first column are counted in halves
PointSets ==
    UNION { { ps \in [1..n -> (0..MaxCoord) \X (0..FGrid)] :
                \A i \in 1..n - 1 : ps[i][1] <= ps[i + 1][1] } : n \in 0..MaxRules }
Halves == (0 - 1)..(2 * MaxCoord + 1)
PointX(point) == 2 * point[1]

NaN == [nan |-> TRUE]
Inf == [inf |-> TRUE]
IsNumber(c) == "num" \in DOMAIN c

\* lines 179-183: the value at x of the line through two points; numpy floats
\* divide 0 by 0 to nan and anything else by 0 to inf, without an exception
Interpolate(x, left, right) ==
    LET distance_horizontal == PointX(right) - PointX(left)
        distance_vertical == right[2] - left[2]
        distance_of_x == x - PointX(left)
    IN  IF distance_horizontal = 0
        THEN IF distance_of_x = 0 \/ distance_vertical = 0 THEN NaN ELSE Inf
        ELSE [num |-> << left[2] * distance_horizontal
                            + distance_vertical * distance_of_x >>,
              den |-> << distance_horizontal >>]

\* calculate_membership(x, outputs_of_rules)
CalculateMembership(x, outputs_of_rules) ==
    LET n == Len(outputs_of_rules)
        reached == { i \in 2..n : x <= PointX(outputs_of_rules[i]) }
    IN  IF n = 1 /\ x = PointX(outputs_of_rules[1])
        THEN Num(outputs_of_rules[1][2])
        ELSE IF n > 1 /\ x >= PointX(outputs_of_rules[1]) /\ reached # {}
        THEN LET i == CHOOSE i \in reached : \A j \in reached : i <= j
             IN  Interpolate(x, outputs_of_rules[i - 1], outputs_of_rules[i])
        ELSE Num(0)

\* calculate_membership(x, outputs_of_rules) is called
CallCalculateMembership ==
    /\ fn.op = "none"
    /\ \E x \in Halves, points \in PointSets :
           fn' = [op |-> "calculate_membership", x |-> x, points |-> points,
                  outcome |-> CalculateMembership(x, points)]
    /\ UNCHANGED <<inferVars, kmVars, tm, fs, mc, st, th>>

\* the arguments of center_of_gravity: a domain and a single membership
\* array or a list of up to MaxLists arrays over it
MembershipLists(n) ==
    { [nested |-> FALSE, data |-> a] : a \in KMArrays(n) }
        \cup { [nested |-> TRUE, data |-> l] :
                   l \in UNION { [1..k -> KMArrays(n)] : k \in 1..MaxLists } }

\* the membership of height 1 over the whole domain 0..10
Rectangle == [nested |-> FALSE, data |-> [i \in DOMAIN TriangleDomain |-> 1]]

\* center_of_gravity(domain, membership_functions) is called
CallCenterOfGravity ==
    /\ fn.op = "none"
    /\ \/ \E domain \in KMDomains :
             \E mfs \in MembershipLists(Len(domain)) :
                 fn' = [op |-> "center_of_gravity", domain |-> domain, mfs |-> mfs,
                        outcome |-> CenterOfGravity(domain, mfs)]
       \/ fn' = [op |-> "center_of_gravity", domain |-> TriangleDomain,
                 mfs |-> Rectangle,
                 outcome |-> CenterOfGravity(TriangleDomain, Rectangle)]
    /\ UNCHANGED <<inferVars, kmVars, tm, fs, mc, st, th>>

\* what a function returns: a number, or an array of numbers
Scalar(v) == [scalar |-> v]
Array(a) == [array |-> a]

\* np.where(cut == maximum)[0]: the indices of the maxima, ascending
IndicesOfMaximum(cut) ==
    LET maximum == MaxSeq(cut)
        S == { i \in DOMAIN cut : cut[i] = maximum }
        nth[k \in 1..Cardinality(S)] ==
            CHOOSE i \in S : Cardinality({ j \in S : j < i }) = k - 1
    IN  nth

\* largest_of_maximum(domain, membership_functions)
LargestOfMaximum(domain, mfs) ==
    LET indices == IndicesOfMaximum(MembershipFuncUnion(mfs))
    IN  Scalar(domain[indices[Len(indices)]])

\* smallest_of_maximum(domain, membership_functions)
SmallestOfMaximum(domain, mfs) ==
    LET indices == IndicesOfMaximum(MembershipFuncUnion(mfs))
    IN  Scalar(domain[indices[1]])

\* middle_of_maximum(domain, membership_functions): middle = int(size / 2),
\* and domain[[indices[middle]]] indexes with a list, which yields an array
MiddleOfMaximum(domain, mfs) ==
    LET indices == IndicesOfMaximum(MembershipFuncUnion(mfs))
        middle == Len(indices) \div 2
    IN  Array(<< domain[indices[middle + 1]] >>)

MaximumMethods == {"largest_of_maximum", "smallest_of_maximum", "middle_of_maximum"}
Maximum(method, domain, mfs) ==
    IF method = "largest_of_maximum" THEN LargestOfMaximum(domain, mfs)
    ELSE IF method = "smallest_of_maximum" THEN SmallestOfMaximum(domain, mfs)
    ELSE MiddleOfMaximum(domain, mfs)

\* one of the three functions is called
CallMaximum ==
    /\ fn.op = "none"
    /\ \E method \in MaximumMethods, domain \in KMDomains :
           \E mfs \in MembershipLists(Len(domain)) :
               fn' = [op |-> method, domain |-> domain, mfs |-> mfs,
                      outcome |-> Maximum(method, domain, mfs)]
    /\ UNCHANGED <<inferVars, kmVars, tm, fs, mc, st, th>>

NextDefuzz ==
    \/ CallWeightedAverage
    \/ CallCalculateMembership
    \/ CallCenterOfGravity
    \/ CallMaximum

----------------------------------------------------------------------------
(* infer, line by line: the loop over the samples of one call *)

\* the features of a call whose clauses hold interval degrees (2-d arrays:
\* a row of lower and a row of upper degrees)
IntervalFeatureArg(n) ==
    [kind |-> "dict",
     items |-> [c \in Clauses |-> [ndim |-> 2, outer |-> "bound",
                                   data |-> << [i \in 1..n |-> 0],
                                               [i \in 1..n |-> Grid] >>]]]

\* the features of a call whose clauses hold one interval degree per sample
\* (2-d arrays: a row (lower, upper) for every sample)
PerSampleFeatureArg(n) ==
    [kind |-> "dict",
     items |-> [c \in Clauses |-> [ndim |-> 2, outer |-> "sample",
                                   data |-> [i \in 1..n |-> << 0, Grid >>]]]]

\* features whose degrees differ from sample to sample: the first sample has
\* every clause at the full degree, the later ones at 0
VaryingFeatureArg(n) ==
    [kind |-> "dict",
     items |-> [c \in Clauses |-> [ndim |-> 1,
                                   data |-> [i \in 1..n |-> IF i = 1 THEN Grid ELSE 0]]]]

\* features that lack the clause c2
PartialFeatureArg(n) ==
    [kind |-> "dict",
     items |-> [c \in {"c1"} |-> [ndim |-> 1, data |-> [i \in 1..n |-> Grid]]]]

\* the clauses a term reads
RECURSIVE ClausesOf(_)
ClausesOf(t) ==
    IF t.op = "leaf" THEN {t.clause} ELSE ClausesOf(t.left) \cup ClausesOf(t.right)

\* the methods handed to infer: weighted_average and the caller's own
StepMethods == {"weighted_average", "plain_average"}

\* line 82: np.take(value, i, axis=-1) raises IndexError when the last axis
\* of some array is shorter than i
TakeFails(features, i) ==
    \E c \in DOMAIN features :
        features[c].ndim = 2 /\ i > Len(features[c].data[1])

NoStep ==
    [pc |-> "idle", self |-> 0, method |-> "none", features |-> <<>>,
     measures |-> <<>>, i |-> 0, keys |-> <<>>, single_features |-> <<>>,
     single_measures |-> <<>>, key |-> <<>>, miss |-> FALSE, r |-> 0,
     outputs |-> <<>>, firings |-> <<>>, handed |-> [firings |-> <<>>, outputs |-> <<>>],
     conclusion |-> None, conclusions |-> <<>>, trace |-> <<>>]

StepEnded == st.pc \in {"idle", "returned", "raised"}

\* line 77: the number of samples of the call
NumSamples == Len(st.measures[1])

TakeIndexOrder(xs, ind) == xs
\* outputs[ind], firings[ind]: the elements in the order of the indices
TakeIndex(xs, ind) == [k \in DOMAIN ind |-> xs[ind[k]]]

AfterRuleFirst(r) == "sort"
\* line 91: the loop goes on to the next rule, and past the last one it ends
AfterRule(r) == IF r < NumRules THEN "rule_output" ELSE "sort"

AfterDefuzzifyGoesOn(conclusion) == "append"
\* lines 99-101: what the method raises leaves infer; what it returns is
\* appended next
AfterDefuzzify(conclusion) == IF IsErr(conclusion) THEN "raised" ELSE "append"

\* lines 70-76: infer is called with arguments that pass the checks
StepEnter(self, method, features, measures) ==
    /\ PreconditionError(features, measures, method) = "none"
    /\ st' = [NoStep EXCEPT !.pc = "sample", !.self = self,
                            !.method = method,
                            !.features = features.items,
                            !.measures = measures.items]

StepCall ==
    /\ StepEnded
    /\ nCalls < MaxStepCalls
    /\ \E self \in Instances, n \in 1..MaxSamples, method \in StepMethods :
         \E measures \in MeasureArgs(n) :
           \/ \E features \in FeatureArgs(n) :
                  StepEnter(self, method, features, measures)
           \/ StepEnter(self, method, IntervalFeatureArg(n), measures)
           \/ StepEnter(self, method, PerSampleFeatureArg(n), measures)
           \/ StepEnter(self, method, VaryingFeatureArg(n), measures)
           \/ StepEnter(self, method, PartialFeatureArg(n), measures)
    /\ nCalls' = nCalls + 1
    /\ UNCHANGED <<cache, storedBy, params, lastCall, nSets, kmVars, tm, fs, mc, fn, th>>

\* lines 77-86: the next sample's features, measures and key, and the lookup
StepSample ==
    /\ st.pc = "sample"
    /\ st.i < NumSamples
    /\ LET i == st.i + 1
           single_measures == SingleMeasures(st.measures, i)
           key == GetInputTuple(params[st.self], single_measures)
           hit == IsCached(cache, key)
       IN  st' = IF TakeFails(st.features, i)
                 THEN [st EXCEPT !.i = i, !.pc = "raised", !.miss = FALSE,
                                 !.trace = <<>>]
                 ELSE [st EXCEPT !.i = i, !.key = key, !.miss = ~hit,
                                 !.keys = Append(@, key),
                                 !.single_features = SingleFeatures(st.features, i),
                                 !.single_measures = single_measures,
                                 !.pc = IF hit THEN "cached" ELSE "rule_output",
                                 !.r = 1, !.outputs = <<>>, !.firings = <<>>,
                                 !.handed = NoStep.handed, !.conclusion = None,
                                 !.trace = <<>>]
    /\ UNCHANGED <<inferVars, kmVars, tm, fs, mc, fn, th>>

\* line 87: the cached conclusion is appended
StepCached ==
    /\ st.pc = "cached"
    /\ st' = [st EXCEPT !.pc = "sample",
                        !.conclusions = AppendConclusion(@, cache[st.key]),
                        !.trace = Append(@, <<"append">>)]
    /\ UNCHANGED <<inferVars, kmVars, tm, fs, mc, fn, th>>

\* line 92: outputs.append(rule.consequent.output(single_measures))
StepRuleOutput ==
    /\ st.pc = "rule_output"
    /\ st' = [st EXCEPT !.pc = "rule_fire",
                        !.outputs = Append(@, Output(params[st.self][st.r],
                                                     st.single_measures)),
                        !.trace = Append(@, <<"output", st.r>>)]
    /\ UNCHANGED <<inferVars, kmVars, tm, fs, mc, fn, th>>

\* line 93: firings.append(rule.antecedent.fire(single_features)); a leaf
\* whose clause the features lack raises KeyError
StepRuleFire ==
    /\ st.pc = "rule_fire"
    /\ st' = IF ClausesOf(RuleBase(st.self)[st.r]) \subseteq DOMAIN st.single_features
             THEN [st EXCEPT !.pc = AfterRule(st.r),
                             !.r = st.r + 1,
                             !.firings = Append(@, Fire(RuleBase(st.self)[st.r],
                                                        st.single_features)),
                             !.trace = Append(@, <<"fire", st.r>>)]
             ELSE [st EXCEPT !.pc = "raised"]
    /\ UNCHANGED <<inferVars, kmVars, tm, fs, mc, fn, th>>

\* lines 94-98: both arrays are put in the ascending order of the outputs
StepSort ==
    /\ st.pc = "sort"
    /\ LET ind == ArgSort(st.outputs)
       IN  st' = [st EXCEPT !.pc = "defuzzify",
                            !.handed = [firings |-> TakeIndex(st.firings, ind),
                                        outputs |-> TakeIndex(st.outputs, ind)]]
    /\ UNCHANGED <<inferVars, kmVars, tm, fs, mc, fn, th>>

\* lines 99-100: the defuzzification method is called; what it raises ends
\* the call of infer
StepDefuzzify ==
    /\ st.pc = "defuzzify"
    /\ LET conclusion == Defuzzify(st.method, st.handed.firings, st.handed.outputs)
       IN  st' = [st EXCEPT !.pc = AfterDefuzzify(conclusion),
                            !.conclusion = conclusion,
                            !.trace = Append(@, <<"defuzzify">>)]
    /\ UNCHANGED <<inferVars, kmVars, tm, fs, mc, fn, th>>

\* line 101: conclusions.append(conclusion)
StepAppend ==
    /\ st.pc = "append"
    /\ st' = [st EXCEPT !.pc = "store",
                        !.conclusions = AppendConclusion(@, st.conclusion),
                        !.trace = Append(@, <<"append">>)]
    /\ UNCHANGED <<inferVars, kmVars, tm, fs, mc, fn, th>>

\* line 102: self.__cache[input_tuple] = conclusion
StepStore ==
    /\ st.pc = "store"
    /\ cache' = CacheStore(cache, st.key, st.conclusion)
    /\ storedBy' = [k \in DOMAIN cache \cup {st.key} |->
                    IF k = st.key THEN st.self ELSE storedBy[k]]
    /\ st' = [st EXCEPT !.pc = "sample", !.trace = Append(@, <<"store">>)]
    /\ UNCHANGED <<params, lastCall, nCalls, nSets, kmVars, tm, fs, mc, fn, th>>

\* line 104: return conclusions
StepReturn ==
    /\ st.pc = "sample"
    /\ st.i = NumSamples
    /\ st' = [st EXCEPT !.pc = "returned"]
    /\ UNCHANGED <<inferVars, kmVars, tm, fs, mc, fn, th>>

\* between two calls the caller replaces a coefficient
StepParameter ==
    /\ StepEnded
    /\ nSets < MaxSets
    /\ \E self \in Instances, r \in 1..NumRules, value \in 0..MaxValue :
           SetParameter(self, r, 1, value)

NextStep ==
    \/ StepCall \/ StepSample \/ StepCached \/ StepRuleOutput \/ StepRuleFire
    \/ StepSort \/ StepDefuzzify \/ StepAppend \/ StepStore \/ StepReturn
    \/ StepParameter

----------------------------------------------------------------------------
(* infer called from several threads: the interpreter may switch threads
   between any two statements, and the class takes no lock *)

Threads == {1, 2}

NoThread ==
    [pc |-> "idle", self |-> 0, features |-> <<>>, measures |-> <<>>, i |-> 0,
     key |-> <<>>, miss |-> FALSE, evals |-> 0, conclusion |-> None,
     replaced |-> None, conclusions |-> <<>>]

\* lines 70-76: a thread calls infer with weighted_average
ThreadCall(t) ==
    /\ th[t].pc = "idle"
    /\ \E self \in Instances, n \in 1..MaxThreadSamples :
         \E features \in FeatureArgs(n), measures \in MeasureArgs(n) :
           /\ PreconditionError(features, measures, "weighted_average") = "none"
           /\ th' = [th EXCEPT ![t] = [NoThread EXCEPT !.pc = "sample", !.self = self,
                                                       !.features = features.items,
                                                       !.measures = measures.items]]
    /\ UNCHANGED <<inferVars, kmVars, tm, fs, mc, fn, st>>

\* lines 77-86: the next sample's key and the lookup in the shared dict
ThreadLookup(t) ==
    /\ th[t].pc = "sample"
    /\ th[t].i < Len(th[t].measures[1])
    /\ LET i == th[t].i + 1
           key == GetInputTuple(params[th[t].self], SingleMeasures(th[t].measures, i))
           hit == IsCached(cache, key)
       IN  th' = [th EXCEPT ![t] = [@ EXCEPT !.i = i, !.key = key, !.miss = ~hit,
                                             !.evals = 0, !.conclusion = None,
                                             !.replaced = None,
                                             !.pc = IF hit THEN "cached"
                                                    ELSE "evaluate"]]
    /\ UNCHANGED <<inferVars, kmVars, tm, fs, mc, fn, st>>

\* line 87: the entry is read and appended
ThreadCached(t) ==
    /\ th[t].pc = "cached"
    /\ th' = [th EXCEPT ![t] = [@ EXCEPT !.pc = "sample",
                                         !.conclusions =
                                             AppendConclusion(@, cache[th[t].key])]]
    /\ UNCHANGED <<inferVars, kmVars, tm, fs, mc, fn, st>>

\* lines 89-101: the rules, the sort, the defuzzification and the append; all
\* of it works on the thread's own locals
ThreadEvaluate(t) ==
    /\ th[t].pc = "evaluate"
    /\ LET conclusion ==
               FreshConclusion(th[t].self, params[th[t].self], "weighted_average",
                               SingleFeatures(th[t].features, th[t].i),
                               SingleMeasures(th[t].measures, th[t].i))
       IN  th' = [th EXCEPT ![t] =
                     IF IsErr(conclusion) THEN [@ EXCEPT !.pc = "raised"]
                     ELSE [@ EXCEPT !.pc = "store", !.evals = NumRules,
                                    !.conclusion = conclusion,
                                    !.conclusions = AppendConclusion(@, conclusion)]]
    /\ UNCHANGED <<inferVars, kmVars, tm, fs, mc, fn, st>>

\* line 102: self.__cache[input_tuple] = conclusion
ThreadStore(t) ==
    /\ th[t].pc = "store"
    /\ cache' = CacheStore(cache, th[t].key, th[t].conclusion)
    /\ storedBy' = [k \in DOMAIN cache \cup {th[t].key} |->
                    IF k = th[t].key THEN th[t].self ELSE storedBy[k]]
    /\ th' = [th EXCEPT ![t] = [@ EXCEPT !.pc = "sample",
                                         !.replaced = IF th[t].key \in DOMAIN cache
                                                      THEN cache[th[t].key]
                                                      ELSE None]]
    /\ UNCHANGED <<params, lastCall, nCalls, nSets, kmVars, tm, fs, mc, fn, st>>

\* line 104: return conclusions
ThreadReturn(t) ==
    /\ th[t].pc = "sample"
    /\ th[t].i = Len(th[t].measures[1])
    /\ th' = [th EXCEPT ![t] = [@ EXCEPT !.pc = "returned"]]
    /\ UNCHANGED <<inferVars, kmVars, tm, fs, mc, fn, st>>

NextThreads ==
    \E t \in Threads :
        \/ ThreadCall(t) \/ ThreadLookup(t) \/ ThreadCached(t)
        \/ ThreadEvaluate(t) \/ ThreadStore(t) \/ ThreadReturn(t)

\* a freshly loaded class and two instances, no call made
InitInfer ==
    /\ cache = <<>>
    /\ storedBy = <<>>
    /\ params = [self \in Instances |-> << <<1>>, <<2>> >>]
    /\ lastCall = NoCall
    /\ nCalls = 0
    /\ nSets = 0

Init ==
    /\ InitInfer
    /\ km = KMIdle
    /\ tick = FALSE
    /\ tm = NoTerm
    /\ fs = NoFuzzySet
    /\ mc = NoConsequent
    /\ fn = NoFunctionCall
    /\ st = NoStep
    /\ th = [t \in Threads |-> NoThread]

InferOk ==
    /\ nCalls < MaxCalls
    /\ \E self \in Instances, n \in 1..MaxSamples :
        \E features \in FeatureArgs(n), measures \in MeasureArgs(n) :
            Infer(self, "weighted_average", features, measures)

InferBadArguments ==
    /\ nCalls < MaxCalls
    /\ \E self \in Instances, method \in Methods :
        \E features \in {SomeFeatures, BadArg}, measures \in {SomeMeasures, BadArg} :
            /\ ~(features.kind = "dict" /\ measures.kind = "dict"
                    /\ method = "weighted_average")
            /\ Infer(self, method, features, measures)

ChangeParameter ==
    /\ nSets < MaxSets
    /\ \E self \in Instances, r \in 1..NumRules, value \in Values :
        SetParameter(self, r, 1, value)

Next == InferOk \/ InferBadArguments \/ ChangeParameter

Spec == Init /\ [][Next]_vars

\* a caller that tunes coefficients between one-sample calls on fixed features
TuneInfer ==
    /\ nCalls < MaxTuneCalls
    /\ \E self \in Instances, measures \in MeasureArgs(1) :
        Infer(self, "weighted_average", SomeFeatures, measures)

TuneParameter ==
    /\ nSets < MaxTunes
    /\ \E self \in Instances, r \in 1..NumRules, value \in Values :
        SetParameter(self, r, 1, value)

NextTune == TuneInfer \/ TuneParameter

SpecTune == Init /\ [][NextTune]_vars

\* takagi_sugeno_karnik_mendel: the rules' outputs are whole numbers between
\* -1 and MaxCoord, their firings pairs (lower, upper) in 1/FGrid, step 1 or
\* MaxStep
TSKMOutputs(n) == [1..n -> (0 - 1)..MaxCoord]
TSKMFirings(n) == [1..n -> IntervalDegreesOf(FGrid)]
TSKMSteps == 1..MaxStep

\* lines 145-147: the rows (output, lower firing, upper firing), sorted by
\* output
TSKMRows(firings, outputs) ==
    LET ind == ArgSort(outputs)
    IN  [k \in DOMAIN outputs |->
            << outputs[ind[k]], firings[ind[k]][1], firings[ind[k]][2] >>]

TSKMDomainClosed(rows, step) ==
    LET start == (rows[1][1] \div step) * step
        stop == ((rows[Len(rows)][1] \div step) + 1) * step
    IN  [k \in 1..(((stop - start) \div step) + 1) |-> start + (k - 1) * step]
\* lines 148-150: np.arange(floor(min / step) * step,
\* floor(max / step + 1) * step, step)
TSKMDomain(rows, step) ==
    LET start == (rows[1][1] \div step) * step
        stop == ((rows[Len(rows)][1] \div step) + 1) * step
    IN  [k \in 1..((stop - start) \div step) |-> start + (k - 1) * step]

\* lines 153-158: the memberships of the domain's points, from the columns
\* (output, lower firing) and (output, upper firing)
TSKMMemberships(rows, domain, column) ==
    [i \in DOMAIN domain |->
        CalculateMembership(2 * domain[i],
                            [r \in DOMAIN rows |-> << rows[r][1], rows[r][column] >>])]

\* the memberships are multiples of 1 / (FGrid * TSKMSpan): the distance of
\* two outputs divides TSKMSpan
TSKMSpan == Factorial(MaxCoord + 1)
ToGrid(c) == (c.num[1] * TSKMSpan) \div c.den[1]

\* takagi_sugeno_karnik_mendel(firings, outputs, step) is called and calls
\* karnik_mendel (line 159); a membership that is nan makes every comparison
\* of __find_k false, and karnik_mendel raises IndexError
TSKMEnter(firings, outputs, step) ==
    LET rows == TSKMRows(firings, outputs)
        domain == TSKMDomain(rows, step)
        lmf == TSKMMemberships(rows, domain, 2)
        umf == TSKMMemberships(rows, domain, 3)
        from == [name |-> "takagi_sugeno_karnik_mendel", firings |-> firings,
                 outputs |-> outputs, step |-> step, rows |-> rows,
                 lmf |-> lmf, umf |-> umf]
    IN  IF \E i \in DOMAIN domain : ~IsNumber(lmf[i]) \/ ~IsNumber(umf[i])
        THEN [KMIdle EXCEPT !.pc = "error", !.domain = domain, !.from = from]
        ELSE [KMCall([i \in DOMAIN domain |-> ToGrid(lmf[i])],
                     [i \in DOMAIN domain |-> ToGrid(umf[i])],
                     domain, FGrid * TSKMSpan) EXCEPT !.from = from]

\* karnik_mendel was handed an array that holds a nan
HandedNaN ==
    /\ km.from.name = "takagi_sugeno_karnik_mendel"
    /\ \E i \in DOMAIN km.domain : ~IsNumber(km.from.lmf[i]) \/ ~IsNumber(km.from.umf[i])

TSKMCall ==
    /\ km.pc = "idle"
    /\ \E n \in 1..MaxTSKMRules :
         \E firings \in TSKMFirings(n), outputs \in TSKMOutputs(n), step \in TSKMSteps :
             km' = TSKMEnter(firings, outputs, step)
    /\ UNCHANGED <<inferVars, tick, tm, fs, mc, fn, st, th>>

\* karnik_mendel is called
KarnikMendelCall ==
    /\ km.pc = "idle"
    /\ \/ \E domain \in KMDomains :
             \E lmf \in KMArrays(Len(domain)), umf \in KMArrays(Len(domain)) :
                 /\ \A i \in DOMAIN domain : lmf[i] <= umf[i]
                 /\ km' = KMCall(lmf, umf, domain, MGrid)
       \/ km' = KMCall(Triangle, Triangle, TriangleDomain, TriangleGrid)
       \/ km' = KMCallLists(PairLower, PairUpper, PairDomain, MGrid)
    /\ UNCHANGED <<inferVars, tick, tm, fs, mc, fn, st, th>>

NextKM ==
    \/ KarnikMendelCall
    \/ TSKMCall
    \/ FindYBegin
    \/ FindYFirst
    \/ FindYIterate
    \/ FindYReturn
    \/ KarnikMendelReturn

SpecKM == Init /\ [][NextKM]_vars

\* a call that has been entered and has not returned or raised
KMRunning == km.pc \notin {"idle", "done", "error"}
\* a running call takes its next step: every step of a call flips tick, and
\* nothing else does
KMProgress == KMRunning /\ tick' = ~tick
\* the interpreter runs a call until it returns, raises or loops forever
SpecKMFair == SpecKM /\ WF_tick(KMProgress)

SpecTerm == Init /\ [][NextTerm]_vars

SpecFS == Init /\ [][NextFS]_vars

SpecMamdani == Init /\ [][NextMamdani]_vars

SpecDefuzz == Init /\ [][NextDefuzz]_vars
SpecStep == Init /\ [][NextStep]_vars
SpecThreads == Init /\ [][NextThreads]_vars



----------------------------------------------------------------------------
(* Properties of infer and its cache *)

\* this step is an infer call
IsCall == lastCall'.call # lastCall.call

\* C1: a sample whose key is already cached (by an earlier call, or by an
\* earlier sample of the same call) gets the stored conclusion, with no
\* consequent.output, no antecedent.fire and no defuzzification; what a call
\* returns for a sample is what the cache holds for the sample's key.
C1_CacheHitReusesConclusion ==
    [][ (IsCall /\ lastCall'.status = "ok") =>
          \A i \in DOMAIN lastCall'.keys :
              LET k == lastCall'.keys[i]
              IN  /\ k \in DOMAIN cache =>
                        /\ lastCall'.conclusions[i] = cache[k]
                        /\ lastCall'.evals[i] = NoEvals
                  /\ \A j \in 1..(i - 1) :
                        lastCall'.keys[j] = k =>
                            /\ lastCall'.conclusions[i] = lastCall'.conclusions[j]
                            /\ lastCall'.evals[i] = NoEvals
                  /\ cache'[k] = lastCall'.conclusions[i] ]_vars

\* the second call repeats the key of the first and is served from the cache
C1_Witness ==
    /\ lastCall.call = 2
    /\ lastCall.status = "ok"
    /\ \E i \in DOMAIN lastCall.keys :
          lastCall.hits[i] /\ lastCall.evals[i] = NoEvals

\* C2: an infer call reads only conclusions that its own instance stored.
C2_CacheOwnedByInstance ==
    lastCall.status = "ok" =>
        \A i \in DOMAIN lastCall.keys :
            lastCall.hits[i] => storedBy[lastCall.keys[i]] = lastCall.self

\* C3: a conclusion served from the cache equals what evaluating every rule
\* on the sample and defuzzifying with the call's method would give.
C3_CachedEqualsFresh ==
    lastCall.status = "ok" =>
        \A i \in DOMAIN lastCall.keys :
            lastCall.hits[i] =>
                /\ ~IsErr(lastCall.fresh[i])
                /\ NumEq(lastCall.conclusions[i], lastCall.fresh[i])

\* two successive calls on one instance, with the same measured values and a
\* coefficient changed in between
CoefficientChanged ==
    /\ IsCall
    /\ lastCall.status = "ok"
    /\ lastCall'.status = "ok"
    /\ lastCall'.self = lastCall.self
    /\ lastCall'.measures = lastCall.measures
    /\ lastCall'.ruleParams # lastCall.ruleParams

\* C4 (as amended): after a coefficient changed, no key of the second call
\* is a key of the first, and a sample is served without evaluating the
\* rules only if its new key was in the cache before the call.
C4_KeySensitiveToParameters ==
    [][ CoefficientChanged =>
          \A i \in DOMAIN lastCall'.keys :
              /\ \A j \in DOMAIN lastCall.keys : lastCall'.keys[i] # lastCall.keys[j]
              /\ lastCall'.evals[i] = NoEvals =>
                    \/ lastCall'.keys[i] \in DOMAIN cache
                    \/ \E j \in 1..(i - 1) : lastCall'.keys[j] = lastCall'.keys[i]
        ]_vars

\* a call made after a coefficient was changed, with other keys than before
C4_Witness ==
    /\ lastCall.call >= 2
    /\ lastCall.status = "ok"
    /\ nSets >= 1
    /\ lastCall.ruleParams # [r \in 1..NumRules |-> << r >>]
    /\ \E i \in DOMAIN lastCall.keys : ~lastCall.hits[i]

\* C4 (as stated): after a coefficient changed, the second call reuses no
\* conclusion cached before the change and evaluates the rules.
C4_AlwaysReEvaluates ==
    [][ CoefficientChanged =>
          \A i \in DOMAIN lastCall'.keys :
              /\ lastCall'.keys[i] \notin DOMAIN cache
              /\ lastCall'.evals[i] # NoEvals ]_vars

\* C5: with features or measures that are no mapping, or a method that is
\* not callable, infer raises ValueError, evaluates nothing, returns nothing
\* and leaves the cache as it was.
C5_PreconditionsFailFast ==
    [][ ( /\ IsCall
          /\ \/ lastCall'.kinds[1] # "dict"
             \/ lastCall'.kinds[2] # "dict"
             \/ lastCall'.method = "not_callable" )
        => /\ lastCall'.status = "ValueError"
           /\ lastCall'.evals = <<>>
           /\ lastCall'.conclusions = <<>>
           /\ cache' = cache ]_vars

\* a call with a method that is not callable, made on a non-empty cache
C5_Witness ==
    /\ lastCall.status = "ValueError"
    /\ lastCall.method = "not_callable"
    /\ lastCall.kinds = <<"dict", "dict">>
    /\ DOMAIN cache # {}

----------------------------------------------------------------------------
(* Karnik-Mendel *)

KMDone == km.pc = "done"
Type1Input == km.lmfs = km.umfs
AllZero(mf) == \A i \in DOMAIN mf : mf[i] = 0

\* the mean of the points of the domain
DomainMean == Average(km.domain, [i \in DOMAIN km.domain |-> <<1, 0>>])

\* C7 (corrected): when karnik_mendel is given the same array lmf as lower and
\* as upper membership and lmf is not zero everywhere, it returns the average
\* of the domain weighted by lmf + 1e-10, which is within 1e-6 of
\* center_of_gravity(domain, lmf); for the triangle over 0..10 that is 5.  When
\* lmf is zero everywhere it returns the mean of the domain while
\* center_of_gravity raises ZeroDivisionError.
C7_Type1ReducesToBiasedCentroid ==
    (KMDone /\ Type1Input) =>
        LET cog == CenterOfGravity(km.domain, km.lmfs)
        IN  /\ NumEq(km.result,
                     Average(km.domain, Biased(LowerCut, km.grid)))
            /\ IF AllZero(LowerCut)
               THEN IsErr(cog) /\ NumEq(km.result, DomainMean)
               ELSE ~IsErr(cog) /\ Close(km.result, cog)
            /\ (km.domain = TriangleDomain => Close(km.result, Num(5)))

C7_Witness ==
    /\ KMDone /\ Type1Input
    /\ km.domain = TriangleDomain
    /\ NumEq(CenterOfGravity(km.domain, km.lmfs), Num(5))

\* C7 as stated: for every domain and every lmf, karnik_mendel(lmf, lmf,
\* domain) equals center_of_gravity(domain, lmf) within tolerance.
C7_EqualsCenterOfGravity ==
    (KMDone /\ Type1Input) =>
        LET cog == CenterOfGravity(km.domain, km.lmfs)
        IN  ~IsErr(cog) /\ Close(km.result, cog)

StrictlyAscending(domain) ==
    \A i \in DOMAIN domain : \A j \in DOMAIN domain : i < j => domain[i] < domain[j]

\* the arguments the claim is about: strictly ascending points and
\* 0 <= lmf <= umf at every point
KMPrecondition ==
    /\ km.pc # "idle"
    /\ StrictlyAscending(km.domain)
    /\ ~HandedNaN
    /\ \A i \in DOMAIN km.domain : 0 <= LowerCut[i] /\ LowerCut[i] <= UpperCut[i]

\* the last two candidates differ by no more than the machine epsilon
WithinEps == NumEq(km.c_minute, km.c_prim) \/ DiffOrder(km.c_minute, km.c_prim) >= 2

\* C8: for a strictly ascending domain and 0 <= lmf <= umf, each search for
\* an endpoint ends, so karnik_mendel returns; a search is left only when two
\* successive candidates differ by at most the machine epsilon, and never by
\* an exception.
C8_SearchEnds ==
    /\ [](KMPrecondition => <>KMDone)
    /\ [](KMPrecondition => km.pc # "error")
    /\ [](KMPrecondition /\ km.pc \in {"find_yr", "return"} => WithinEps)

C8_Witness ==
    /\ KMPrecondition /\ KMDone
    /\ km.looped
    /\ ~Type1Input
    /\ ~NumEq(km.y_l, km.y_r)

----------------------------------------------------------------------------
(* Antecedents *)

TermFired == tm.state = "fired"

\* the antecedent (a | b) & (c & d) over four clauses
IsOrAndAnd(t) ==
    /\ t.op = "and"
    /\ t.left.op = "or" /\ t.left.left.op = "leaf" /\ t.left.right.op = "leaf"
    /\ t.right.op = "and" /\ t.right.left.op = "leaf" /\ t.right.right.op = "leaf"

\* C9: firing an antecedent evaluates its tree with the algebra: a clause
\* gives its measured degree, A & B gives t_norm(A.fire(m), B.fire(m)), A | B
\* gives s_norm(A.fire(m), B.fire(m)), for scalar and for interval degrees;
\* (a | b) & (c & d) gives min(max(a, b), min(c, d)) of the measured degrees,
\* component by component.
C9_FireEvaluatesTree ==
    TermFired =>
        LET t == tm.term
            m == tm.m
        IN  /\ t.op = "leaf" => tm.result = m[t.clause]
            /\ t.op = "and" => tm.result = TNorm(Fire(t.left, m), Fire(t.right, m))
            /\ t.op = "or" => tm.result = SNorm(Fire(t.left, m), Fire(t.right, m))
            /\ IsOrAndAnd(t) =>
                   LET a == m[t.left.left.clause]
                       b == m[t.left.right.clause]
                       c == m[t.right.left.clause]
                       d == m[t.right.right.clause]
                   IN  /\ DOMAIN tm.result = DOMAIN a
                       /\ \A i \in DOMAIN a :
                              tm.result[i] = Min(Max(a[i], b[i]), Min(c[i], d[i]))

C9_Witness ==
    /\ TermFired
    /\ tm.term = And(Or(Leaf("A"), Leaf("B")), And(Leaf("C"), Leaf("D")))
    /\ tm.m["A"] = <<0, 0>> /\ tm.m["B"] = <<0, 1>>
    /\ tm.m["C"] = <<1, 1>> /\ tm.m["D"] = <<1, 1>>
    /\ tm.result = <<0, 1>>

----------------------------------------------------------------------------
(* IntervalType2FuzzySet *)

FuzzySetCalled == fs.last.op = "call"

\* C10: a call of an IntervalType2FuzzySet with a point or an array of points
\* returns the pair (lmf(x), umf(x)) when lmf(x) <= umf(x) at every element,
\* equality included, and raises ValueError when lmf(x) > umf(x) at some
\* element; nothing else is ever returned.
C10_CallReturnsPairOrRaises ==
    FuzzySetCalled =>
        LET x == fs.last.x
            lower == [i \in DOMAIN x.data |-> fs.last.lmf.at[x.data[i]]]
            upper == [i \in DOMAIN x.data |-> fs.last.umf.at[x.data[i]]]
        IN  IF \A i \in DOMAIN x.data : lower[i] <= upper[i]
            THEN fs.last.outcome =
                     [lower |-> [ndim |-> x.ndim, data |-> lower],
                      upper |-> [ndim |-> x.ndim, data |-> upper]]
            ELSE fs.last.outcome = Err("ValueError")

C10_Witness ==
    /\ FuzzySetCalled
    /\ fs.last.x.ndim = 1 /\ Len(fs.last.x.data) = MaxArray
    /\ ~IsErr(fs.last.outcome)
    /\ \E i \in DOMAIN fs.last.x.data :
           fs.last.outcome.lower.data[i] = fs.last.outcome.upper.data[i]
    /\ \E i \in DOMAIN fs.last.x.data :
           fs.last.outcome.lower.data[i] < fs.last.outcome.upper.data[i]

\* C11: an IntervalType2FuzzySet never holds a membership function that is
\* not callable: a construction with a lower or upper function that is not
\* callable raises ValueError and yields no set, and an assignment of a value
\* that is not callable through either setter raises ValueError and leaves
\* the set's functions as they are.
C11_OnlyCallableFunctions ==
    /\ fs.state = "set" => fs.lmf.callable /\ fs.umf.callable
    /\ fs.last.op = "init" =>
           IF fs.last.lmf.callable /\ fs.last.umf.callable
           THEN fs.state = "set" /\ ~IsErr(fs.last.outcome)
           ELSE fs.state = "none" /\ fs.last.outcome = Err("ValueError")
    /\ (fs.last.op \in {"set_lower", "set_upper"} /\ ~fs.last.value.callable) =>
           fs.last.outcome = Err("ValueError")

C11_Witness ==
    /\ fs.state = "set"
    /\ fs.last.op = "set_upper"
    /\ ~fs.last.value.callable
    /\ fs.last.outcome = Err("ValueError")
    /\ fs.umf.callable

----------------------------------------------------------------------------
(* MamdaniConsequent *)

\* C12 as stated: output returns the cut of the clause's membership array for
\* a scalar firing, the pair of cuts for an interval firing (l, u), and fails
\* with an error for every other firing, a tuple whose length is not 2
\* included.
C12_OutputCutsOrFails ==
    mc.state = "called" =>
        LET f == mc.rule_firing
        IN  /\ (f.type = "float" /\ mc.clause.kind = "t1") =>
                   mc.outcome = [kind |-> "array",
                                 data |-> [i \in 1..MaxArray |->
                                              Min(mc.clause.mf[i], f.value)]]
            /\ (f.type = "tuple" /\ Len(f.items) = 2 /\ mc.clause.kind = "it2") =>
                   mc.outcome = [kind |-> "pair",
                                 lower |-> [i \in 1..MaxArray |->
                                               Min(mc.clause.lmf[i], f.items[1])],
                                 upper |-> [i \in 1..MaxArray |->
                                               Min(mc.clause.umf[i], f.items[2])]]
            /\ (f.type \notin {"float", "tuple"}
                    \/ (f.type = "tuple" /\ Len(f.items) # 2)) =>
                   IsErr(mc.outcome)

----------------------------------------------------------------------------
(* Defuzzification functions *)

WACalled == fn.op = "weighted_average"
Firing(r) == fn.firings[r][1]
NRules == Len(fn.firings)

\* sum(output_i * (firing_i + 1e-10)) / sum(firing_i + 1e-10), firings in 1/Grid
BiasedQuotient ==
    [num |-> << SumSeq([r \in 1..NRules |-> fn.outputs[r] * Firing(r)]),
                Grid * SumSeq(fn.outputs) >>,
     den |-> << SumSeq([r \in 1..NRules |-> Firing(r)]), Grid * NRules >>]

\* the arithmetic mean of the outputs
OutputMean == [num |-> << SumSeq(fn.outputs) >>, den |-> << NRules >>]

UniformFirings == \A r \in 1..NRules : Firing(r) = Firing(1)

\* C13 (corrected): for every vector of at least one non-negative firing,
\* the all-zero vector included, weighted_average returns
\* sum(output_i * (firing_i + 1e-10)) / sum(firing_i + 1e-10) and does not
\* fail; with uniform firings, zero or not, this is the arithmetic mean of
\* the outputs.  For the empty vector it raises ZeroDivisionError.
C13_BiasedAverage ==
    WACalled =>
        IF NRules = 0 THEN fn.outcome = Err("ZeroDivisionError")
        ELSE /\ ~IsErr(fn.outcome)
             /\ NumEq(fn.outcome, BiasedQuotient)
             /\ UniformFirings => NumEq(fn.outcome, OutputMean)

C13_Witness ==
    /\ WACalled
    /\ NRules = MaxRules
    /\ \A r \in 1..NRules : Firing(r) = 0
    /\ fn.outputs[1] # fn.outputs[2]
    /\ ~IsErr(fn.outcome)
    /\ NumEq(fn.outcome, OutputMean)

\* C13 as stated: for every vector of non-negative firings weighted_average
\* returns a value and never fails with a zero division.
C13_NeverZeroDivision == WACalled => ~IsErr(fn.outcome)

CMCalled == fn.op = "calculate_membership"


\* the largest second-column value of the points
RECURSIVE LargestValue(_)
LargestValue(points) ==
    IF points = <<>> THEN 0
    ELSE Max(Head(points)[2], LargestValue(Tail(points)))

\* C14 as stated: for points sorted ascending by the first column, points
\* that share a first-column value included, calculate_membership returns the
\* single point's value when x equals it, the linear interpolation between
\* the two bracketing points when x lies within [first, last], and 0
\* otherwise; the result lies between 0 and the largest point value.
C14_InterpolatesWithinRange ==
    CMCalled =>
        LET n == Len(fn.points)
            first == PointX(fn.points[1])
            last == PointX(fn.points[n])
        IN  /\ IsNumber(fn.outcome)
            /\ NumLeq(Num(0), fn.outcome)
            /\ NumLeq(fn.outcome, Num(LargestValue(fn.points)))
            /\ (n = 0 \/ fn.x < first \/ fn.x > last) => NumEq(fn.outcome, Num(0))
            /\ (n = 1 /\ fn.x = first) => NumEq(fn.outcome, Num(fn.points[1][2]))
            /\ (n > 1 /\ first <= fn.x /\ fn.x <= last) =>
                   \E i \in 2..n :
                       /\ PointX(fn.points[i - 1]) <= fn.x
                       /\ fn.x <= PointX(fn.points[i])
                       /\ LET l == fn.points[i - 1]
                              r == fn.points[i]
                          IN  \/ /\ PointX(l) = PointX(r)
                                 /\ NumLeq(Num(Min(l[2], r[2])), fn.outcome)
                                 /\ NumLeq(fn.outcome, Num(Max(l[2], r[2])))
                              \/ /\ PointX(l) < PointX(r)
                                 /\ NumEq(fn.outcome,
                                          [num |-> << l[2] * (PointX(r) - PointX(l))
                                                       + (r[2] - l[2]) * (fn.x - PointX(l)) >>,
                                           den |-> << PointX(r) - PointX(l) >>])

COGCalled == fn.op = "center_of_gravity"

\* the membership arrays handed over, a single array being a list of one
COGArrays == IF fn.mfs.nested THEN fn.mfs.data ELSE << fn.mfs.data >>

\* u is the elementwise maximum of the arrays
IsUnion(u) ==
    /\ DOMAIN u = DOMAIN fn.domain
    /\ \A i \in DOMAIN u :
           /\ \A a \in DOMAIN COGArrays : COGArrays[a][i] <= u[i]
           /\ \E a \in DOMAIN COGArrays : COGArrays[a][i] = u[i]

\* C15: center_of_gravity(domain, mfs) is sum(domain_i * u_i) / sum(u_i) for
\* the elementwise maximum u of the arrays of mfs; for the membership of
\* height 1 over the domain 0..10 that is 5; when u is zero everywhere the
\* call raises instead of returning a value.
C15_CentroidOfUnion ==
    COGCalled =>
        \E u \in [DOMAIN fn.domain -> 0..MGrid] :
            /\ IsUnion(u)
            /\ IF \A i \in DOMAIN u : u[i] = 0
               THEN IsErr(fn.outcome)
               ELSE /\ IsNumber(fn.outcome)
                    /\ NumEq(fn.outcome,
                             [num |-> << SumSeq([i \in DOMAIN u |-> fn.domain[i] * u[i]]) >>,
                              den |-> << SumSeq(u) >>])
            /\ fn.mfs = Rectangle => NumEq(fn.outcome, Num(5))

C15_Witness ==
    /\ COGCalled
    /\ fn.mfs.nested /\ Len(fn.mfs.data) = 2
    /\ fn.mfs.data[1] = <<MGrid, 0, 0>>
    /\ fn.mfs.data[2] = <<0, 0, MGrid>>
    /\ fn.domain = <<0, 1, 2>>
    /\ NumEq(fn.outcome, Num(1))

----------------------------------------------------------------------------
(* Antecedent construction *)

\* C16: a construction of an antecedent with an algebra argument that is not
\* an Algebra raises TypeError and leaves no antecedent; an antecedent that
\* exists has as its algebra the Algebra instance that was passed in, and
\* that never changes.
C16_AlgebraCheckedAndKept ==
    /\ [](("raised" \in DOMAIN tm) =>
              tm.state = "none" /\ tm.given \notin Algebras
                  /\ tm.raised = Err("TypeError"))
    /\ [](tm.state # "none" => tm.algebra \in Algebras /\ tm.algebra = tm.given)
    /\ [][tm.state # "none" => tm'.state # "none" /\ tm'.algebra = tm.algebra]_vars

C16_Witness ==
    /\ tm.state = "fired"
    /\ tm.given = "godel_2"
    /\ tm.algebra = "godel_2"

----------------------------------------------------------------------------
(* infer, line by line *)

\* the sample being processed, as the call was given it
StepFeatures == SingleFeatures(st.features, st.i)
StepMeasures == SingleMeasures(st.measures, st.i)

\* what each rule of the rule base yields for the sample: its (output, firing)
RuleOutput(r) == Output(params[st.self][r], StepMeasures)
RuleFiring(r) == Fire(RuleBase(st.self)[r], StepFeatures)
RulePairs == [r \in 1..NumRules |-> << RuleOutput(r), RuleFiring(r) >>]
HandedPairs ==
    [k \in DOMAIN st.handed.outputs |-> << st.handed.outputs[k], st.handed.firings[k] >>]
RuleOrders(n) ==
    { p \in [1..n -> 1..n] : \A i, j \in 1..n : i # j => p[i] # p[j] }
Handing == st.pc = "defuzzify"

\* C17: on a cache miss the two arrays handed to the defuzzification method
\* hold, position by position, the output and the firing of one and the same
\* rule, every rule exactly once, and the outputs never decrease along them
C17_HandedSortedPairs ==
    Handing =>
        /\ st.miss
        /\ DOMAIN st.handed.outputs = 1..NumRules
        /\ DOMAIN st.handed.firings = 1..NumRules
        /\ \E p \in RuleOrders(NumRules) :
               \A k \in 1..NumRules : HandedPairs[k] = RulePairs[p[k]]
        /\ \A k \in 1..(NumRules - 1) :
               st.handed.outputs[k] <= st.handed.outputs[k + 1]
\* the sort moved the rules: the first rule has the larger output, and the
\* two firings differ
C17_Witness ==
    /\ Handing
    /\ RulePairs[1][1] > RulePairs[2][1]
    /\ RulePairs[1][2] # RulePairs[2][2]
    /\ HandedPairs = << RulePairs[2], RulePairs[1] >>

\* what lines 91-102 do for one missed sample, in order
RECURSIVE RuleEvents(_)
RuleEvents(n) ==
    IF n = 0 THEN <<>>
    ELSE RuleEvents(n - 1) \o << <<"output", n>>, <<"fire", n>> >>
MissEvents == RuleEvents(NumRules) \o << <<"defuzzify">>, <<"append">>, <<"store">> >>
IsPrefix(s, t) == Len(s) <= Len(t) /\ \A k \in DOMAIN s : s[k] = t[k]
Defuzzified == \E k \in DOMAIN st.trace : st.trace[k] = <<"defuzzify">>
Missing == st.i >= 1 /\ st.miss
MissDone == Missing /\ st.pc \in {"sample", "returned"}

\* C18: for a sample that is not cached, infer takes output and fire of every
\* rule once, rule by rule in the order of the rule base, on that sample's
\* measures and features; then it calls the defuzzification method once; and
\* only when that call has returned is the conclusion stored under the
\* sample's key and appended to the result
C18_MissEvaluatesThenStores ==
    /\ [](Missing =>
            /\ IsPrefix(st.trace, MissEvents)
            /\ (~StepEnded =>
                  /\ \A r \in DOMAIN st.outputs : st.outputs[r] = RuleOutput(r)
                  /\ \A r \in DOMAIN st.firings : st.firings[r] = RuleFiring(r))
            /\ (Defuzzified =>
                  st.conclusion = Defuzzify(st.method, st.handed.firings,
                                            st.handed.outputs))
            /\ (~Defuzzified \/ st.pc = "raised" =>
                  /\ st.key \notin DOMAIN cache
                  /\ Len(st.conclusions) = st.i - 1))
    /\ [](MissDone =>
            /\ st.trace = MissEvents
            /\ st.key \in DOMAIN cache
            /\ cache[st.key] = st.conclusion
            /\ Len(st.conclusions) = st.i
            /\ st.conclusions[st.i] = st.conclusion)
    /\ [][ (cache' # cache \/ (st'.conclusions # st.conclusions /\ st.miss /\ st.i >= 1))
             => Defuzzified /\ ~IsErr(st.conclusion) ]_vars
\* a missed sample went all the way: both rules evaluated, the conclusion
\* stored and appended
C18_Witness ==
    /\ MissDone
    /\ st.trace = MissEvents
    /\ st.key \in DOMAIN cache
    /\ Len(st.conclusions) = st.i

----------------------------------------------------------------------------
(* Karnik-Mendel: the candidates *)

SearchingLeft == km.pc \in {"first_yl", "loop_yl"}
InLoop == km.pc \in {"loop_yl", "loop_yr"}
AtFirst == km.pc \in {"first_yl", "first_yr"}
\* the largest index of the domain whose point is not above c
HasSwitch(c) == \E k \in DOMAIN km.domain : NumLeq(Num(km.domain[k]), c)
SwitchIndex(c) ==
    CHOOSE k \in DOMAIN km.domain :
        /\ NumLeq(Num(km.domain[k]), c)
        /\ \A j \in DOMAIN km.domain : j > k => ~NumLeq(Num(km.domain[j]), c)
\* the unions of the upper and of the lower membership arrays, pointwise
ArraysOf(mfs) == IF mfs.nested THEN mfs.data ELSE << mfs.data >>
Greatest(S) == CHOOSE m \in S : \A x \in S : x <= m
UnionAt(mfs, i) == Greatest({ ArraysOf(mfs)[f][i] : f \in DOMAIN ArraysOf(mfs) })
UpperUnion == [i \in DOMAIN km.domain |-> UnionAt(km.umfs, i)]
LowerUnion == [i \in DOMAIN km.domain |-> UnionAt(km.lmfs, i)]
\* the weights the claim gives a candidate: under up to the switch index,
\* over beyond it, each plus 1e-10 (memberships count in 1/grid)
SwitchWeights(c) ==
    LET k == SwitchIndex(c)
        under == IF SearchingLeft THEN UpperUnion ELSE LowerUnion
        over == IF SearchingLeft THEN LowerUnion ELSE UpperUnion
    IN  [i \in DOMAIN km.domain |->
            << IF i \in 1..k THEN under[i] ELSE over[i], km.grid >>]
\* (lower_union + upper_union) / 2 + 1e-10, scaled by 2 * grid
HalfWeights ==
    [i \in DOMAIN km.domain |-> << LowerUnion[i] + UpperUnion[i], 2 * km.grid >>]

\* C19: every candidate c'' a search computes from c' is the average of the
\* domain weighted by under + 1e-10 at the indices up to k and by over + 1e-10
\* beyond, k being the largest index with domain[k] <= c'; the search for y_l
\* takes the union of the upper arrays as under and that of the lower arrays
\* as over, the search for y_r the other way round; and the first c' of a
\* search is the average of the domain weighted by
\* (lower_union + upper_union) / 2 + 1e-10
C19_CandidateIsSwitchedAverage ==
    /\ AtFirst => NumEq(km.c_prim, Average(km.domain, HalfWeights))
    /\ InLoop =>
          /\ HasSwitch(km.c_prim)
          /\ NumEq(km.c_minute, Average(km.domain, SwitchWeights(km.c_prim)))
\* a turn of the loop for y_r whose switch index lies inside the domain and
\* whose two membership arrays differ on both sides of it
C19_Witness ==
    /\ km.pc = "loop_yr"
    /\ km.looped
    /\ HasSwitch(km.c_prim)
    /\ km.lmfs.nested
    /\ LowerUnion # km.lmfs.data[1]
    /\ LET k == SwitchIndex(km.c_prim)
       IN  /\ k < Len(km.domain)
           /\ LowerUnion[k] # UpperUnion[k]
           /\ LowerUnion[k + 1] # UpperUnion[k + 1]

----------------------------------------------------------------------------
(* The cache over a sequence of calls *)

\* C20: whatever calls of infer follow, a key that is in the cache stays in
\* it and keeps the conclusion stored with it
C20_CacheOnlyGrows ==
    [][\A key \in DOMAIN cache : key \in DOMAIN cache' /\ cache'[key] = cache[key]]_vars
\* the second call stored a key of its own and looked another one up that an
\* earlier call had stored, and a key it never used is still there
C20_Witness ==
    /\ lastCall.call = 2
    /\ lastCall.status = "ok"
    /\ \E i \in DOMAIN lastCall.hits : ~lastCall.hits[i]
    /\ \E i \in DOMAIN lastCall.hits : lastCall.hits[i]
    /\ \E key \in DOMAIN cache : \A i \in DOMAIN lastCall.keys : lastCall.keys[i] # key

----------------------------------------------------------------------------
(* infer from two threads *)

SameKey == th[1].self = th[2].self /\ th[1].key = th[2].key /\ th[1].i >= 1
BothMissed == \A t \in Threads : th[t].i >= 1 /\ th[t].miss
\* the values of the thread's sample, from the call's arguments
ThreadFresh(t) ==
    FreshConclusion(th[t].self, params[th[t].self], "weighted_average",
                    SingleFeatures(th[t].features, th[t].i),
                    SingleMeasures(th[t].measures, th[t].i))

\* C21: nothing serializes lookup and store.  A thread that found no entry
\* for its key evaluates every rule and then writes its own conclusion under
\* the key, whatever another thread has stored there since the lookup: two
\* interleaved calls for one key can both miss and both evaluate, and the
\* later write replaces the earlier entry
C21_LookupAndStoreInterleave ==
    /\ [](\A t \in Threads :
            th[t].pc = "store" =>
                /\ th[t].miss
                /\ th[t].evals = NumRules
                /\ th[t].conclusion = ThreadFresh(t))
    /\ [][\A t \in Threads :
            (th[t].pc = "store" /\ th'[t].pc # "store") =>
                /\ th[t].key \in DOMAIN cache'
                /\ cache'[th[t].key] = th[t].conclusion
                /\ (th[t].key \in DOMAIN cache => th'[t].replaced = cache[th[t].key])]_vars
\* two calls on one instance for one key both missed and both evaluated the
\* rule base; thread 2 wrote last and replaced the different conclusion that
\* thread 1 had written
C21_Witness ==
    /\ SameKey /\ BothMissed
    /\ \A t \in Threads : th[t].evals = NumRules /\ th[t].pc = "sample"
    /\ th[2].replaced = th[1].conclusion
    /\ th[1].conclusion # th[2].conclusion
    /\ cache[th[2].key] = th[2].conclusion

----------------------------------------------------------------------------
(* infer: the slices of one sample *)

\* a sample has been sliced and the call is still running
Sliced == st.i >= 1 /\ ~StepEnded
\* every clause's array holds one degree per sample along its outer axis
PerSample ==
    \A c \in DOMAIN st.features :
        st.features[c].ndim = 1 \/ st.features[c].outer = "sample"
\* the i-th degree of a per-sample sequence: a scalar, or a whole
\* (lower, upper) pair
DegreeOf(value, i) == IF value.ndim = 1 THEN << value.data[i] >> ELSE value.data[i]

\* C22: for every sample index i the rules are given, for every clause, the
\* i-th degree of the clause's per-sample sequence (an interval degree as its
\* whole pair) and, for every variable, the i-th measured value; and a call
\* that returns has processed as many samples as the measures are long
C22_SlicesAreTheSample ==
    /\ (Sliced /\ PerSample) =>
          /\ \A c \in DOMAIN st.features :
                 st.single_features[c] = DegreeOf(st.features[c], st.i)
          /\ \A v \in DOMAIN st.measures :
                 st.single_measures[v] = st.measures[v][st.i]
    /\ (st.pc = "returned" /\ PerSample) =>
          /\ st.i = NumSamples
          /\ Len(st.conclusions) = NumSamples
\* the same for scalar degrees only
C22_ScalarSlices ==
    (Sliced /\ \A c \in DOMAIN st.features : st.features[c].ndim = 1) =>
        /\ \A c \in DOMAIN st.features :
               st.single_features[c] = DegreeOf(st.features[c], st.i)
        /\ \A v \in DOMAIN st.measures :
               st.single_measures[v] = st.measures[v][st.i]

----------------------------------------------------------------------------
(* IntervalType2FuzzySet: replacing a membership function *)

JustAssigned == fs.state = "set" /\ fs.last.op \in {"set_lower", "set_upper"}
\* the lower function lies above the upper one at some point
Crossed(lmf, umf) == \E p \in Points : lmf.at[p] > umf.at[p]
\* what a call returns for the functions lmf and umf
PairOrError(lmf, umf, x) ==
    IF \E i \in DOMAIN x.data : lmf.at[x.data[i]] > umf.at[x.data[i]]
    THEN Err("ValueError")
    ELSE [lower |-> [ndim |-> x.ndim, data |-> [i \in DOMAIN x.data |-> lmf.at[x.data[i]]]],
          upper |-> [ndim |-> x.ndim, data |-> [i \in DOMAIN x.data |-> umf.at[x.data[i]]]]]

\* C23: an assignment of a callable through either setter succeeds whether or
\* not lower <= upper still holds, and replaces that function only; every
\* call after it is answered from the functions the set holds then, so a
\* lower function above the upper one shows only as the ValueError of a call
\* at such a point
C23_SetterReplacesWithoutValidation ==
    [][ /\ (fs.state = "set" /\ fs'.last.op = "set_lower" /\ fs'.last # fs.last
               /\ fs'.last.value.callable) =>
              /\ fs'.last.outcome = [ok |-> TRUE]
              /\ fs'.lmf = fs'.last.value /\ fs'.umf = fs.umf
        /\ (fs.state = "set" /\ fs'.last.op = "set_upper" /\ fs'.last # fs.last
               /\ fs'.last.value.callable) =>
              /\ fs'.last.outcome = [ok |-> TRUE]
              /\ fs'.umf = fs'.last.value /\ fs'.lmf = fs.lmf
        /\ (fs.state = "set" /\ fs'.last.op = "call" /\ fs'.last # fs.last) =>
              /\ fs'.last.outcome = PairOrError(fs.lmf, fs.umf, fs'.last.x)
              /\ fs'.lmf = fs.lmf /\ fs'.umf = fs.umf ]_vars
\* a setter has just put a lower function in place that lies above the upper
\* one, and succeeded
C23_Witness ==
    /\ JustAssigned
    /\ fs.last.op = "set_lower"
    /\ fs.last.outcome = [ok |-> TRUE]
    /\ fs.lmf = fs.last.value
    /\ Crossed(fs.lmf, fs.umf)

----------------------------------------------------------------------------
(* The maximum methods *)

MaximumCalled == fn.op \in MaximumMethods
\* the membership arrays handed over, a single array being a list of one
MaxArrays == IF fn.mfs.nested THEN fn.mfs.data ELSE << fn.mfs.data >>
\* the union of the arrays at index i, and the indices where it is largest
UnionValue(i) == Greatest({ MaxArrays[a][i] : a \in DOMAIN MaxArrays })
MaximumIndices ==
    { i \in DOMAIN fn.domain : \A j \in DOMAIN fn.domain : UnionValue(j) <= UnionValue(i) }
\* the k-th of them in ascending order, counted from 0
MaximumIndex(k) ==
    CHOOSE i \in MaximumIndices : Cardinality({ j \in MaximumIndices : j < i }) = k

\* C24 as stated: with i_0 < ... < i_(n-1) the indices where the union of the
\* arrays is largest, smallest_of_maximum returns domain[i_0],
\* largest_of_maximum returns domain[i_(n-1)] and middle_of_maximum returns
\* the domain point domain[i_floor(n/2)]
C24_ReturnsPointOfMaximum ==
    MaximumCalled =>
        LET n == Cardinality(MaximumIndices)
        IN  /\ fn.op = "smallest_of_maximum" =>
                  fn.outcome = Scalar(fn.domain[MaximumIndex(0)])
            /\ fn.op = "largest_of_maximum" =>
                  fn.outcome = Scalar(fn.domain[MaximumIndex(n - 1)])
            /\ fn.op = "middle_of_maximum" =>
                  fn.outcome = Scalar(fn.domain[MaximumIndex(n \div 2)])
\* the points are as stated, whatever the shape of what is returned
C24_PointsOfMaximum ==
    MaximumCalled =>
        LET n == Cardinality(MaximumIndices)
        IN  /\ fn.op = "smallest_of_maximum" =>
                  fn.outcome = Scalar(fn.domain[MaximumIndex(0)])
            /\ fn.op = "largest_of_maximum" =>
                  fn.outcome = Scalar(fn.domain[MaximumIndex(n - 1)])
            /\ fn.op = "middle_of_maximum" =>
                  fn.outcome = Array(<< fn.domain[MaximumIndex(n \div 2)] >>)

----------------------------------------------------------------------------
(* takagi_sugeno_karnik_mendel *)

FromTSKM == km.from.name = "takagi_sugeno_karnik_mendel"
\* floor(a / b) for b > 0, by its definition
FloorDiv(a, b) == CHOOSE q \in (0 - MaxCoord - 2)..(MaxCoord + 2) : q * b <= a /\ a < (q + 1) * b
LeastOutput == CHOOSE o \in { km.from.outputs[r] : r \in DOMAIN km.from.outputs } :
                   \A r \in DOMAIN km.from.outputs : o <= km.from.outputs[r]
GreatestOutput == Greatest({ km.from.outputs[r] : r \in DOMAIN km.from.outputs })
\* the multiples of step from floor(min / step) * step up to, but not
\* including, (floor(max / step) + 1) * step
ClaimedPoints ==
    { m \in (0 - MaxCoord - 2)..(2 * MaxCoord + 2) :
        /\ m % km.from.step = 0
        /\ FloorDiv(LeastOutput, km.from.step) * km.from.step <= m
        /\ m < (FloorDiv(GreatestOutput, km.from.step) + 1) * km.from.step }
\* the rows are the rules, each once, in an order of ascending output
RowsAreSortedRules ==
    /\ DOMAIN km.from.rows = DOMAIN km.from.outputs
    /\ \E p \in RuleOrders(Len(km.from.outputs)) :
           \A k \in DOMAIN km.from.rows :
               km.from.rows[k] = << km.from.outputs[p[k]], km.from.firings[p[k]][1],
                                    km.from.firings[p[k]][2] >>
    /\ \A k \in 1..(Len(km.from.rows) - 1) : km.from.rows[k][1] <= km.from.rows[k + 1][1]
ColumnPoints(column) ==
    [r \in DOMAIN km.from.rows |-> << km.from.rows[r][1], km.from.rows[r][column] >>]
\* the membership m (a multiple of 1 / km.grid) is the number c (in 1 / FGrid)
SameMembership(m, c) ==
    IsNumber(c) /\ m * c.den[1] * FGrid = c.num[1] * km.grid

\* C25: takagi_sugeno_karnik_mendel sorts the rules by output, takes as domain
\* the multiples of step from floor(min / step) * step up to but excluding
\* (floor(max / step) + 1) * step, which are never none, sets lmf[i] and umf[i]
\* to calculate_membership of domain[i] over the (output, lower firing) and
\* the (output, upper firing) points, and returns what karnik_mendel returns
\* for these arrays and this domain
C25_BuildsDomainAndMemberships ==
    FromTSKM =>
        /\ RowsAreSortedRules
        /\ km.domain # <<>>
        /\ { km.domain[i] : i \in DOMAIN km.domain } = ClaimedPoints
        /\ \A i \in 1..(Len(km.domain) - 1) : km.domain[i] < km.domain[i + 1]
        /\ \A i \in DOMAIN km.domain :
               /\ km.from.lmf[i] = CalculateMembership(2 * km.domain[i], ColumnPoints(2))
               /\ km.from.umf[i] = CalculateMembership(2 * km.domain[i], ColumnPoints(3))
        /\ IF \A i \in DOMAIN km.domain : IsNumber(km.from.lmf[i]) /\ IsNumber(km.from.umf[i])
           THEN /\ km.pc # "error"
                /\ ~km.lmfs.nested /\ ~km.umfs.nested
                /\ \A i \in DOMAIN km.domain :
                       /\ SameMembership(km.lmfs.data[i], km.from.lmf[i])
                       /\ SameMembership(km.umfs.data[i], km.from.umf[i])
                /\ (km.pc = "done" => NumEq(km.result, HalfSum(km.y_l, km.y_r)))
           ELSE km.pc = "error"
\* a call with two rules given in descending order of output, a step that
\* does not divide the least output, and differing lower and upper firings
\* has returned
C25_Witness ==
    /\ FromTSKM /\ km.pc = "done"
    /\ Len(km.from.outputs) = 2
    /\ km.from.outputs[1] > km.from.outputs[2]
    /\ km.from.step > 1
    /\ LeastOutput % km.from.step # 0
    /\ Len(km.domain) >= 2
    /\ km.lmfs # km.umfs

----------------------------------------------------------------------------
(* Karnik-Mendel: the two ends and the decision *)

FirstPoint == Num(km.domain[1])
LastPoint == Num(km.domain[Len(km.domain)])

\* C26: for a strictly ascending domain and 0 <= lmf <= umf the two values
\* the searches end with satisfy domain[0] <= y_l <= y_r <= domain[last], and
\* the decision (y_l + y_r) / 2 lies between y_l and y_r, hence within the
\* range of the domain
C26_DecisionWithinEnds ==
    (KMPrecondition /\ KMDone) =>
        /\ NumLeq(FirstPoint, km.y_l)
        /\ NumLeq(km.y_l, km.y_r)
        /\ NumLeq(km.y_r, LastPoint)
        /\ NumLeq(km.y_l, km.result) /\ NumLeq(km.result, km.y_r)
        /\ NumLeq(FirstPoint, km.result) /\ NumLeq(km.result, LastPoint)
\* a call whose two ends differ and lie strictly inside the domain
C26_Witness ==
    /\ KMPrecondition /\ KMDone
    /\ ~NumLeq(km.y_r, km.y_l)
    /\ ~NumLeq(km.y_l, FirstPoint)
    /\ ~NumLeq(LastPoint, km.y_r)
    /\ ~NumLeq(km.result, km.y_l) /\ ~NumLeq(km.y_r, km.result)

----------------------------------------------------------------------------
(* infer: a sample that fails *)

\* the call has ended with what a rule or the defuzzification method raised
\* for sample st.i
SampleFailed == st.pc = "raised" /\ st.miss
EarlierKeys == { st.keys[j] : j \in 1..(st.i - 1) }

\* C27: when a rule or the defuzzification method fails for a sample, infer
\* ends with that failure and nothing is stored under the sample's key,
\* while what earlier samples of the call stored stays in the cache; every
\* entry of the cache is a value a defuzzification method returned
C27_FailureStoresNothing ==
    /\ [](SampleFailed =>
            /\ st.key \notin DOMAIN cache
            /\ \A key \in EarlierKeys : key \in DOMAIN cache
            /\ Len(st.conclusions) = st.i - 1)
    /\ [][st'.pc = "raised" => cache' = cache]_vars
    /\ [][\A key \in DOMAIN cache' :
             key \notin DOMAIN cache =>
                 /\ st.pc = "store" /\ key = st.key
                 /\ cache'[key] = st.conclusion
                 /\ IsNumber(st.conclusion)
                 /\ st.conclusion = Defuzzify(st.method, st.handed.firings,
                                              st.handed.outputs)]_vars
    /\ [](\A key \in DOMAIN cache : IsNumber(cache[key]))
\* the second sample of a call failed in the defuzzification method after
\* the first sample of the same call was evaluated and stored
C27_Witness ==
    /\ SampleFailed
    /\ st.i = 2
    /\ st.trace = RuleEvents(NumRules) \o << <<"defuzzify">> >>
    /\ IsErr(st.conclusion)
    /\ st.keys[1] \in DOMAIN cache
    /\ st.keys[1] # st.key
    /\ Len(st.conclusions) = 1
\* a rule failed: its antecedent reads a clause the features lack
C27_RuleFailed ==
    /\ SampleFailed
    /\ st.r = NumRules
    /\ st.trace = RuleEvents(NumRules - 1) \o << <<"output", NumRules>> >>

====
